---- MODULE Spec2Model ----
(***************************************************************************)
(* A model of the mpdisplay display drivers:                               *)
(*   - BusDisplay (lib/mpdisplay/_busdisplay.py): the MADCTL lookup, the   *)
(*     byte-packed init-sequence parser and the constructor;               *)
(*   - DisplayDriver (src/lib/pydevices/__init__.py): rotation and the     *)
(*     vertical-scroll state;                                              *)
(*   - Events (same file): the registry of event types and classes.        *)
(* Each component has its own specification over the shared variables; the *)
(* variables of the other components stay at their idle values.            *)
(***************************************************************************)
EXTENDS Integers, Sequences, FiniteSets, TLC

VARIABLES
    mCall,      \* _madctl: the last call, [called, bgr, rotation, mirrored, result]
    ibSeq,      \* _init_bytes: the init_sequence buffer (a sequence of bytes)
    ibRecs,     \* the records ibSeq was packed from
    ibRaw,      \* number of bytes appended to ibSeq outside any record
    ibRun,      \* the outcome of the last _init_bytes(ibSeq) call
    bd,         \* the BusDisplay object under construction / constructed
    bdArgs,     \* the arguments the BusDisplay was constructed with
    busLog,     \* what the last BusDisplay operation did to the bus and pins
    bdOp,       \* the last method called on the constructed BusDisplay
    bdWindow,   \* the address window the controller holds: the last one sent
    dd,         \* the DisplayDriver object
    ddOut,      \* the outcome of the last DisplayDriver call
    ev,         \* the attributes of the Events class
    evOut,      \* the outcome of the last Events.new call
    btCall,     \* blit_transparent: the arguments and outcome of a call
    arCall,     \* Area: a pair of areas and what the two tests say of it
    colCall,    \* color565 / color_rgb: a colour, its 16-bit value and that read back
    cfg         \* board_config: the environment, the position in the script and its globals

mVars  == <<mCall>>
ibVars == <<ibSeq, ibRecs, ibRaw, ibRun>>
bdVars == <<bd, bdArgs, busLog, bdOp, bdWindow>>
ddVars == <<dd, ddOut>>
evVars == <<ev, evOut>>
fnVars == <<btCall, arCall, colCall, cfg>>
vars   == <<mCall, ibSeq, ibRecs, ibRaw, ibRun, bd, bdArgs, busLog, bdOp, bdWindow, dd, ddOut,
           ev, evOut,
           btCall, arCall, colCall, cfg>>

-----------------------------------------------------------------------------
(* Python's integer operators on non-negative integers.                    *)

RECURSIVE BitAnd(_, _)
BitAnd(a, b) ==
    IF a = 0 \/ b = 0 THEN 0
    ELSE (IF a % 2 = 1 /\ b % 2 = 1 THEN 1 ELSE 0) + 2 * BitAnd(a \div 2, b \div 2)

RECURSIVE BitOr(_, _)
BitOr(a, b) ==
    IF a = 0 THEN b
    ELSE IF b = 0 THEN a
    ELSE (IF a % 2 = 1 \/ b % 2 = 1 THEN 1 ELSE 0) + 2 * BitOr(a \div 2, b \div 2)

-----------------------------------------------------------------------------
(* MIPI DCS constants of _busdisplay.py (decimal; hex in the comments).    *)

_INVOFF == 32    \* 0x20
_INVON  == 33    \* 0x21
_CASET  == 42    \* 0x2A
_RASET  == 43    \* 0x2B
_RAMWR  == 44    \* 0x2C
_COLMOD == 58    \* 0x3A
_MADCTL == 54    \* 0x36
_SLPOUT == 17    \* 0x11

_RGB == 0        \* 0x00
_BGR == 8        \* 0x08
_MADCTL_MV == 32     \* 0x20
_MADCTL_MX == 64     \* 0x40
_MADCTL_MY == 128    \* 0x80

_DEFAULT_ROTATION_TABLE ==
    << _MADCTL_MX,
       _MADCTL_MV,
       _MADCTL_MY,
       BitOr(BitOr(_MADCTL_MY, _MADCTL_MX), _MADCTL_MV) >>

_MIRRORED_ROTATION_TABLE ==
    << 0,
       BitOr(_MADCTL_MV, _MADCTL_MX),
       BitOr(_MADCTL_MX, _MADCTL_MY),
       BitOr(_MADCTL_MV, _MADCTL_MY) >>

_DEFAULT_TOUCH_ROTATION_TABLE == << 0, 5, 6, 3 >>   \* 0b000, 0b101, 0b110, 0b011

(* rotation_table as __init__ selects it from the mirrored flag. *)
RotationTable(mirrored) ==
    IF ~mirrored THEN _DEFAULT_ROTATION_TABLE ELSE _MIRRORED_ROTATION_TABLE

-----------------------------------------------------------------------------
(* BusDisplay._madctl                                                      *)

(* index = (rotation // 90) % len(rotations); Python's // floors and its % *)
(* takes the sign of the divisor, as \div and % do here.                   *)
MadctlIndex(rotation, rotations) ==
    (rotation \div 90) % Len(rotations)

(* return rotations[index] | _BGR if bgr else _RGB                         *)
(* A conditional expression binds weaker than |, so this is                *)
(* (rotations[index] | _BGR) if bgr else _RGB.                             *)
_madctl(bgr, rotation, rotations) ==
    IF bgr
    THEN BitOr(rotations[MadctlIndex(rotation, rotations) + 1], _BGR)
    ELSE _RGB

MaxQuarter == 6     \* rotations range over -MaxQuarter*90 .. MaxQuarter*90

(* The rotations tried: every multiple of 90 in range, and the values 1    *)
(* and 45 degrees past each.                                               *)
RotationInputs ==
    { q * 90 + d : q \in (0 - MaxQuarter)..MaxQuarter, d \in {0, 1, 45} }

MadctlNotCalled == [called |-> FALSE, bgr |-> FALSE, rotation |-> 0,
                    mirrored |-> FALSE, result |-> 0]

(* self._madctl(bgr, rotation, rotation_table) *)
MadctlCall ==
    /\ \E bgr \in BOOLEAN, rotation \in RotationInputs, mirrored \in BOOLEAN :
        mCall' = [called |-> TRUE, bgr |-> bgr, rotation |-> rotation,
                  mirrored |-> mirrored,
                  result |-> _madctl(bgr, rotation, RotationTable(mirrored))]
    /\ UNCHANGED <<ibVars, bdVars, ddVars, evVars, fnVars>>

-----------------------------------------------------------------------------
(* BusDisplay._init_bytes                                                  *)

MaxSeqLen == 6      \* longest init_sequence buffer, in bytes
MaxRaw == 1         \* bytes that may be appended outside any record

CmdVals   == {17, 41, 255}      \* command bytes tried (0x11, 0x29, 0xFF)
ParamVals == {1, 128}           \* parameter bytes tried
DelayVals == {1, 255}           \* delay bytes tried
RawVals   == {0, 17, 128, 255}  \* stray bytes tried

Min(a, b) == IF a < b THEN a ELSE b

(* Python's s[lo:hi] for 0 <= lo <= hi: a slice is cut at the end of s and *)
(* never fails.                                                            *)
Slice(s, lo, hi) == SubSeq(s, lo + 1, Min(hi, Len(s)))

(* The records of the byte-packed format, as the docstring lays them out:  *)
(* command, size byte (top bit: a delay byte follows; low 7 bits: the      *)
(* parameter count), the parameters, then the delay byte if flagged. A     *)
(* record without the flag carries no delay byte (its delay field is 0).   *)
ParamSeqs == UNION { [1..n -> ParamVals] : n \in 0..(MaxSeqLen - 2) }

InitRecords ==
    { [cmd |-> c, params |-> p, flag |-> TRUE, delay |-> d] :
        c \in CmdVals, p \in ParamSeqs, d \in DelayVals }
    \cup
    { [cmd |-> c, params |-> p, flag |-> FALSE, delay |-> 0] :
        c \in CmdVals, p \in ParamSeqs }

PackRecord(r) ==
    << r.cmd, Len(r.params) + (IF r.flag THEN 128 ELSE 0) >>
    \o r.params
    \o (IF r.flag THEN << r.delay >> ELSE << >>)

(* for a mutation check: the delay byte taken as milliseconds as is *)
DelayTimeMs_Plain(b) == b

(* if delay_time_ms == 255: delay_time_ms = 500 *)
DelayTimeMs(b) == IF b = 255 THEN 500 ELSE b

(* for a mutation check: the delay byte read one position too far *)
DelayIndex_OneFurther(i, data_size) == i + 2 + (data_size + 1)

(* data_size += 1; delay_time_ms = init_sequence[i + 1 + data_size]:       *)
(* the index of the delay byte, data_size being the parameter count.       *)
DelayIndex(i, data_size) == i + 1 + (data_size + 1)

(* One pass of the while loop from offset i, then the rest of the loop.    *)
(* run: [sent, waits, i, err]; sent holds the offset each command was read *)
(* at. An index past the end of the buffer raises IndexError and ends the  *)
(* call where it stands.                                                   *)
RECURSIVE InitBytesLoop(_, _, _)
InitBytesLoop(s, i, run) ==
    IF ~(i < Len(s)) THEN [run EXCEPT !.i = i]
    ELSE IF i + 1 >= Len(s) THEN [run EXCEPT !.i = i, !.err = "IndexError"]
    ELSE
        LET command   == s[i + 1]
            size_byte == s[i + 2]
            delay     == BitAnd(size_byte, 128) # 0
            data_size == BitAnd(size_byte, 127)
            sent      == Append(run.sent,
                                [at |-> i, cmd |-> command,
                                 params |-> Slice(s, i + 2, i + 2 + data_size)])
        IN  IF ~delay
            THEN InitBytesLoop(s, i + 2 + data_size,
                               [run EXCEPT !.sent = sent,
                                           !.waits = Append(run.waits, 10)])
            ELSE IF DelayIndex(i, data_size) >= Len(s)
            THEN [run EXCEPT !.sent = sent, !.i = i, !.err = "IndexError"]
            ELSE InitBytesLoop(s, i + 2 + (data_size + 1),
                               [run EXCEPT
                                  !.sent = sent,
                                  !.waits = Append(run.waits,
                                      DelayTimeMs(s[DelayIndex(i, data_size) + 1]))])

_init_bytes(init_sequence) ==
    InitBytesLoop(init_sequence, 0,
                  [called |-> TRUE, sent |-> << >>, waits |-> << >>,
                   i |-> 0, err |-> "none"])

IbNotRun == [called |-> FALSE, sent |-> << >>, waits |-> << >>,
             i |-> 0, err |-> "none"]

(* The caller packs one more record onto the buffer. *)
IbAppendRecord ==
    /\ ~ibRun.called
    /\ ibRaw = 0
    /\ \E r \in InitRecords :
        /\ Len(ibSeq) + Len(PackRecord(r)) <= MaxSeqLen
        /\ ibSeq' = ibSeq \o PackRecord(r)
        /\ ibRecs' = Append(ibRecs, r)
    /\ UNCHANGED <<ibRaw, ibRun, mVars, bdVars, ddVars, evVars, fnVars>>

(* The caller appends a byte that belongs to no record. *)
IbAppendRaw ==
    /\ ~ibRun.called
    /\ ibRaw < MaxRaw
    /\ Len(ibSeq) < MaxSeqLen
    /\ \E b \in RawVals : ibSeq' = Append(ibSeq, b)
    /\ ibRaw' = ibRaw + 1
    /\ UNCHANGED <<ibRecs, ibRun, mVars, bdVars, ddVars, evVars, fnVars>>

(* self._init_bytes(init_sequence) *)
IbCall ==
    /\ ~ibRun.called
    /\ ibRun' = _init_bytes(ibSeq)
    /\ UNCHANGED <<ibSeq, ibRecs, ibRaw, mVars, bdVars, ddVars, evVars, fnVars>>


-----------------------------------------------------------------------------
(* BusDisplay: the object, and what its methods do to the bus and pins.    *)
(* A method is an operator from [obj, log, err] to [obj, log, err]: obj is *)
(* the object's fields, log the calls made on the bus, the backlight pin   *)
(* and sleep_ms so far, err the exception raised ("none" while running).   *)
(* A raised exception ends the enclosing methods where they stand.         *)

Event(k, c, p, win) == [k |-> k, c |-> c, p |-> p, win |-> win]

Emit(st, e) == [st EXCEPT !.log = Append(st.log, e)]

Raise(st, e) == [st EXCEPT !.err = e]

(* send_cmd_data(cmd, params): self._send_cmd_data(cmd, params) *)
send_cmd_data(st, cmd, params) ==
    IF st.err # "none" THEN st ELSE Emit(st, Event("cmd", cmd, params, << >>))

(* sleep_ms(ms) *)
sleep_ms(st, ms) ==
    IF st.err # "none" THEN st ELSE Emit(st, Event("sleep_ms", ms, << >>, << >>))

(* self._blit: display_bus.tx_color(cmd, buf, x1, y1, x2, y2) on a bus     *)
(* with tx_color, else self.send_cmd_data(cmd, buf, x1, y1, x2, y2), which *)
(* drops the coordinates.                                                  *)
_blit(st, cmd, buf, x1, y1, x2, y2) ==
    IF st.err # "none" THEN st
    ELSE IF st.obj.bus = "lcd_bus"
    THEN Emit(st, Event("tx_color", cmd, buf, <<x1, y1, x2, y2>>))
    ELSE send_cmd_data(st, cmd, buf)

(* width / height properties: swapped when the rotation index is odd *)
(* ((rotation // 90) & 0x1) == 0x1 is the parity of the floored quotient.  *)
BdWidth(obj) ==
    IF (obj._rotation \div 90) % 2 = 1 THEN obj._height ELSE obj._width

BdHeight(obj) ==
    IF (obj._rotation \div 90) % 2 = 1 THEN obj._width ELSE obj._height

(* the two bytes _set_window packs for one coordinate, high byte first *)
Hi(v) == (v \div 256) % 256
Lo(v) == v % 256

(* _set_window(x1, y1, x2, y2) *)
_set_window(st, x1, y1, x2, y2) ==
    send_cmd_data(
        send_cmd_data(st, st.obj._set_column_command, <<Hi(x1), Lo(x1), Hi(x2), Lo(x2)>>),
        st.obj._set_row_command, <<Hi(y1), Lo(y1), Hi(y2), Lo(y2)>>)

(* self.set_window: _set_window, or _pass in full render mode *)
set_window(st, x1, y1, x2, y2) ==
    IF st.obj.render_mode_full THEN st ELSE _set_window(st, x1, y1, x2, y2)

(* for a mutation check: the window's end taken one past the rectangle *)
blit_EndPastRectangle(st, x, y, width, height, buf) ==
    _blit(set_window(st, x + st.obj._colstart, y + st.obj._rowstart,
                     x + st.obj._colstart + width, y + st.obj._rowstart + height),
          st.obj._write_ram_command, buf,
          x + st.obj._colstart, y + st.obj._rowstart,
          x + st.obj._colstart + width, y + st.obj._rowstart + height)

(* blit(x, y, width, height, buf) *)
blit(st, x, y, width, height, buf) ==
    LET x1 == x + st.obj._colstart
        x2 == x1 + width - 1
        y1 == y + st.obj._rowstart
        y2 == y1 + height - 1
    IN  _blit(set_window(st, x1, y1, x2, y2),
              st.obj._write_ram_command, buf, x1, y1, x2, y2)

(* struct.pack("<H", color) * n *)
RECURSIVE PackColor(_, _)
PackColor(color, n) ==
    IF n <= 0 THEN << >> ELSE <<Lo(color), Hi(color)>> \o PackColor(color, n - 1)

(* for col in range(x, x + width): self.blit(col, y, 1, height, raw_data)  *)
RECURSIVE FillCols(_, _, _, _, _, _)
FillCols(st, col, stop, y, height, raw_data) ==
    IF col >= stop THEN st
    ELSE FillCols(blit(st, col, y, 1, height, raw_data), col + 1, stop, y, height, raw_data)

(* for row in range(y, y + height): self.blit(x, row, width, 1, raw_data)  *)
RECURSIVE FillRows(_, _, _, _, _, _)
FillRows(st, row, stop, x, width, raw_data) ==
    IF row >= stop THEN st
    ELSE FillRows(blit(st, x, row, width, 1, raw_data), row + 1, stop, x, width, raw_data)

(* for a mutation check: the rectangle always streamed row by row *)
fill_rect_AlwaysRows(st, x, y, width, height, color) ==
    FillRows(st, y, y + height, x, width, PackColor(color, width))

(* fill_rect(x, y, width, height, color) *)
fill_rect(st, x, y, width, height, color) ==
    IF height > width
    THEN FillCols(st, x, x + width, y, height, PackColor(color, height))
    ELSE FillRows(st, y, y + height, x, width, PackColor(color, width))

(* for a mutation check: invert_x and invert_y taken from each other's bit *)
set_touch_rotation_mask_Crossed(st, mask) ==
    [st EXCEPT !.obj.touch_set = TRUE,
               !.obj._touch_invert_y = BitAnd(mask \div 2, 1) = 1,
               !.obj._touch_invert_x = BitAnd(mask \div 4, 1) = 1,
               !.obj._touch_swap_xy  = BitAnd(mask, 1) = 1]

(* set_touch_rotation_mask(mask) *)
set_touch_rotation_mask(st, mask) ==
    LET m == BitAnd(mask, 7)
    IN  [st EXCEPT !.obj.touch_set = TRUE,
                   !.obj._touch_invert_y = BitAnd(m \div 4, 1) = 1,
                   !.obj._touch_invert_x = BitAnd(m \div 2, 1) = 1,
                   !.obj._touch_swap_xy  = BitAnd(m, 1) = 1]

(* What self._touch_read_func() returns. kind "absent": no callback was     *)
(* given and the constructor's `lambda: None` stands in; "none": None;     *)
(* "point": pts[1] is the point; "list": pts is a list of points.          *)
TouchRead(kind, pts) == [kind |-> kind, pts |-> pts]

(* for a mutation check: the inversions applied before the swap *)
get_touched_InvertFirst(st, touched) ==
    IF touched.kind \in {"absent", "none"} \/ touched.pts = << >>
    THEN [obj |-> st.obj, log |-> st.log, err |-> st.err, ret |-> << >>]
    ELSE LET x0 == touched.pts[1][1]
             y0 == touched.pts[1][2]
             x1 == IF st.obj._touch_invert_x THEN BdWidth(st.obj) - x0 - 1 ELSE x0
             y1 == IF st.obj._touch_invert_y THEN BdHeight(st.obj) - y0 - 1 ELSE y0
         IN  [obj |-> st.obj, log |-> st.log, err |-> st.err,
              ret |-> IF st.obj._touch_swap_xy THEN <<y1, x1>> ELSE <<x1, y1>>]

(* get_touched(): ret is the point returned, << >> for None. The three     *)
(* touch attributes exist once set_touch_rotation_mask has run.            *)
get_touched(st, touched) ==
    IF touched.kind \in {"absent", "none"} \/ touched.pts = << >>
    THEN [obj |-> st.obj, log |-> st.log, err |-> st.err, ret |-> << >>]
    ELSE IF ~st.obj.touch_set
    THEN [obj |-> st.obj, log |-> st.log, err |-> "AttributeError", ret |-> << >>]
    ELSE LET x0 == touched.pts[1][1]
             y0 == touched.pts[1][2]
             x1 == IF st.obj._touch_swap_xy THEN y0 ELSE x0
             y1 == IF st.obj._touch_swap_xy THEN x0 ELSE y0
             x2 == IF st.obj._touch_invert_x THEN BdWidth(st.obj) - x1 - 1 ELSE x1
             y2 == IF st.obj._touch_invert_y THEN BdHeight(st.obj) - y1 - 1 ELSE y1
         IN  [obj |-> st.obj, log |-> st.log, err |-> st.err, ret |-> <<x2, y2>>]

(* rotation setter *)
bd_set_rotation(st, value) ==
    IF st.err # "none" THEN st
    ELSE
        LET s1 == [st EXCEPT !.obj._rotation = value]
            s2 == send_cmd_data(s1, _MADCTL,
                      << _madctl(s1.obj.bgr, value, RotationTable(s1.obj.mirrored)) >>)
            index == (value \div 90) % Len(s2.obj._touch_rotation_table)
        IN  set_touch_rotation_mask(s2, s2.obj._touch_rotation_table[index + 1])

(* set_render_mode_full(render_mode_full) *)
set_render_mode_full(st, render_mode_full) ==
    IF st.err # "none" THEN st
    ELSE IF render_mode_full
    THEN [_set_window(st, 0, 0, BdWidth(st.obj), BdHeight(st.obj))
            EXCEPT !.obj.render_mode_full = TRUE]
    ELSE [st EXCEPT !.obj.render_mode_full = FALSE]

(* BusDisplay.init(render_mode_full=False), the hook as the class has it *)
bd_init(st) ==
    IF st.err # "none" THEN st
    ELSE
        LET s1 == [st EXCEPT !.obj._initialized = TRUE]
            s2 == bd_set_rotation(s1, s1.obj._rotation)
            s3 == set_render_mode_full(s2, FALSE)
        IN  fill_rect(s3, 0, 0, BdWidth(s3.obj), BdHeight(s3.obj), 0)

(* brightness setter; value is in hundredths (100 stands for 1.0), so that *)
(* int(value * 0xFFFF) is (value * 65535) \div 100. A value outside        *)
(* [0.0, 1.0] falls through the if: nothing is stored, sent or raised.     *)
bd_set_brightness(st, value) ==
    IF st.err # "none" THEN st
    ELSE IF ~(0 <= value /\ value <= 100) THEN st
    ELSE
        LET s1 == [st EXCEPT !.obj.brightness_set = TRUE, !.obj._brightness = value]
            v  == IF ~s1.obj._backlight_on_high THEN 100 - value ELSE value
        IN  IF s1.obj.backlight = "pwm"
            THEN Emit(s1, Event("backlight.duty_u16", (v * 65535) \div 100, << >>, << >>))
            ELSE IF s1.obj.backlight = "binary"
            THEN Emit(s1, Event("backlight.value", IF v > 50 THEN 1 ELSE 0, << >>, << >>))
            ELSE IF s1.obj.has_brightness_command
            THEN send_cmd_data(s1, s1.obj._brightness_command, << (value * 255) \div 100 >>)
            ELSE s1

(* invert_colors(value) *)
invert_colors(st, value) ==
    send_cmd_data(st, IF value THEN _INVON ELSE _INVOFF, << >>)

(* pixel_formats = {3: 0x11, 8: 0x22, 12: 0x33, 16: 0x55, 18: 0x66, 24: 0x77} *)
PixelDepths == {3, 8, 12, 16, 18, 24}

pixel_formats(depth) ==
    CASE depth = 3  -> 17
      [] depth = 8  -> 34
      [] depth = 12 -> 51
      [] depth = 16 -> 85
      [] depth = 18 -> 102
      [] depth = 24 -> 119

(* _colmod(): an unlisted colour depth raises KeyError *)
_colmod(st) ==
    IF st.err # "none" THEN st
    ELSE IF st.obj.color_depth \notin PixelDepths THEN Raise(st, "KeyError")
    ELSE send_cmd_data(st, _COLMOD, << pixel_formats(st.obj.color_depth) >>)

(* The bus calls of a finished _init_bytes run, in order: each command,    *)
(* then its wait if the run got that far.                                  *)
RECURSIVE ReplayInitBytes(_, _, _)
ReplayInitBytes(st, run, k) ==
    IF k > Len(run.sent) THEN st
    ELSE LET s1 == send_cmd_data(st, run.sent[k].cmd, run.sent[k].params)
             s2 == IF k <= Len(run.waits) THEN sleep_ms(s1, run.waits[k]) ELSE s1
         IN  ReplayInitBytes(s2, run, k + 1)

bd_init_bytes(st, init_sequence) ==
    IF st.err # "none" THEN st
    ELSE LET run == _init_bytes(init_sequence)
             s1  == ReplayInitBytes(st, run, 1)
         IN  IF run.err = "none" THEN s1 ELSE Raise(s1, run.err)

(* _init_list(init_sequence): lines of (command, data, delay) *)
RECURSIVE InitListFrom(_, _, _)
InitListFrom(st, init_sequence, k) ==
    IF k > Len(init_sequence) THEN st
    ELSE LET line == init_sequence[k]
             s1 == send_cmd_data(st, line[1], line[2])
             s2 == IF line[3] # 0 THEN sleep_ms(s1, line[3]) ELSE s1
         IN  InitListFrom(s2, init_sequence, k + 1)

_init_list(st, init_sequence) ==
    IF st.err # "none" THEN st ELSE InitListFrom(st, init_sequence, 1)

(* self.init() as the constructor calls it: the class's own, or a          *)
(* subclass's override. "sets_flag" sets self._initialized and nothing     *)
(* else; "forgets_flag" sets the rotation itself and neither calls         *)
(* super().init() nor sets the flag. The log gets a mark where the hook    *)
(* returns.                                                                *)
Hooks == {"base", "sets_flag", "forgets_flag"}

InitHook(st, hook) ==
    IF st.err # "none" THEN st
    ELSE LET s1 == CASE hook = "base" -> bd_init(st)
                     [] hook = "sets_flag" -> [st EXCEPT !.obj._initialized = TRUE]
                     [] hook = "forgets_flag" -> bd_set_rotation(st, st.obj._rotation)
         IN  IF s1.err # "none" THEN s1
             ELSE Emit(s1, Event("init.return", 0, << >>, << >>))

(* The constructor's arguments tried. *)
MaxDim == 2                     \* width and height range over 1..MaxDim

DimVals        == 1..MaxDim
StartVals      == {<<1, 2>>}                \* (colstart, rowstart)
CtorRotations  == {0, 90, 180, 270}
DepthVals      == {16, 15}                  \* 15 is no key of pixel_formats
BrightnessVals == {100, 150}                \* hundredths: 1.0 and 1.5
BrightnessCommandVals == {81}               \* 0x51, a panel's brightness register

(* backlight_pin / backlight_on_high / whether PWM imports, and            *)
(* brightness_command (absent: has_cmd FALSE).                             *)
BacklightVals ==
    { [pin |-> "none", on_high |-> TRUE, has_cmd |-> FALSE, cmd |-> 0] }
    \cup { [pin |-> "none", on_high |-> TRUE, has_cmd |-> TRUE, cmd |-> c] :
             c \in BrightnessCommandVals }
    \cup { [pin |-> "pwm", on_high |-> TRUE, has_cmd |-> FALSE, cmd |-> 0],
           [pin |-> "binary", on_high |-> FALSE, has_cmd |-> FALSE, cmd |-> 0] }

(* init_sequence: None, a bytes object, or a list of lines *)
InitSequenceVals ==
    { [kind |-> "none",  bytes |-> << >>, list |-> << >>],
      [kind |-> "bytes", bytes |-> <<17, 128, 255, 41, 1, 1>>, list |-> << >>],
      [kind |-> "bytes", bytes |-> <<17, 0, 41>>, list |-> << >>],
      [kind |-> "list",  bytes |-> << >>,
       list |-> << <<17, << >>, 120>>, <<41, <<1>>, 0>> >>] }

(* "lcd_bus" has tx_color, tx_param and init; "displayio" has send only *)
BusKinds == {"lcd_bus", "displayio"}

BdBlank ==
    [state |-> "none", err |-> "none", bus |-> "lcd_bus",
     _width |-> 0, _height |-> 0, _colstart |-> 0, _rowstart |-> 0,
     _rotation |-> 0, mirrored |-> FALSE, color_depth |-> 16, bgr |-> FALSE,
     requires_byte_swap |-> FALSE,
     _set_column_command |-> _CASET, _set_row_command |-> _RASET,
     _write_ram_command |-> _RAMWR,
     has_brightness_command |-> FALSE, _brightness_command |-> 0,
     backlight |-> "none", _backlight_on_high |-> TRUE,
     brightness_set |-> FALSE, _brightness |-> 0,
     render_mode_full |-> FALSE, _initialized |-> FALSE,
     _touch_rotation_table |-> _DEFAULT_TOUCH_ROTATION_TABLE,
     touch_set |-> FALSE, _touch_swap_xy |-> FALSE,
     _touch_invert_x |-> FALSE, _touch_invert_y |-> FALSE]

(* __init__, lines 144-199: the fields, the backlight pin's first level    *)
(* and its PWM at duty 0. (The reset and power pins are set up the same    *)
(* way and are not used again by the constructor; they are left out.)      *)
CtorFields(a) ==
    LET obj == [BdBlank EXCEPT
                  !.bus = a.bus,
                  !._width = a.width, !._height = a.height,
                  !._colstart = a.start[1], !._rowstart = a.start[2],
                  !._rotation = a.rotation, !.mirrored = a.mirrored,
                  !.color_depth = a.color_depth, !.bgr = a.bgr,
                  !.has_brightness_command = a.backlight.has_cmd,
                  !._brightness_command = a.backlight.cmd,
                  !.backlight = a.backlight.pin,
                  !._backlight_on_high = a.backlight.on_high,
                  !._touch_rotation_table = a.touch_rotation_table]
        s0 == [obj |-> obj, log |-> << >>, err |-> "none"]
        s1 == IF a.backlight.pin = "none" THEN s0
              ELSE Emit(s0, Event("backlight.value",
                                  IF a.backlight.on_high THEN 1 ELSE 0, << >>, << >>))
    IN  IF a.backlight.pin = "pwm"
        THEN Emit(s1, Event("backlight.pwm", 0, << >>, << >>))
        ELSE s1

(* lines 201-208: display_bus.init(...) if the bus has it *)
CtorBusInit(st) ==
    IF st.obj.bus = "lcd_bus"
    THEN Emit(st, Event("bus.init", 0,
                        << st.obj._width, st.obj._height, st.obj.color_depth,
                           (st.obj._width * st.obj._height * st.obj.color_depth) \div 8 >>,
                        << >>))
    ELSE st

(* lines 211-214 *)
CtorInitSequence(st, init_sequence) ==
    CASE init_sequence.kind = "bytes" -> bd_init_bytes(st, init_sequence.bytes)
      [] init_sequence.kind = "list"  -> _init_list(st, init_sequence.list)
      [] OTHER -> st

(* lines 216-219 *)
CtorCheckInitialized(st) ==
    IF st.err # "none" THEN st
    ELSE IF ~st.obj._initialized THEN Raise(st, "RuntimeError")
    ELSE st

(* for a mutation check: a constructor that goes on without the check *)
CtorTail_NoCheck(st, a) ==
    _colmod(
        (IF a.invert THEN invert_colors(bd_set_brightness(st, a.brightness), TRUE)
         ELSE bd_set_brightness(st, a.brightness)))

(* for a mutation check: the inversion sent after COLMOD *)
CtorTail_InvertLast(st, a) ==
    LET s1 == CtorCheckInitialized(st)
        s2 == _colmod(bd_set_brightness(s1, a.brightness))
    IN  IF a.invert THEN invert_colors(s2, TRUE) ELSE s2

(* lines 216-223: the check of _initialized, then brightness, inversion    *)
(* and COLMOD                                                              *)
CtorTail(st, a) ==
    LET s1 == CtorCheckInitialized(st)
        s2 == bd_set_brightness(s1, a.brightness)
        s3 == IF a.invert THEN invert_colors(s2, TRUE) ELSE s2
    IN  _colmod(s3)

(* BusDisplay.__init__ *)
BusDisplay__init__(a) ==
    LET s1 == CtorBusInit(CtorFields(a))
        s2 == CtorInitSequence([s1 EXCEPT !.obj._initialized = FALSE], a.init_sequence)
        s3 == InitHook(s2, a.hook)
    IN  CtorTail(s3, a)

CtorArgs ==
    [bus : BusKinds, init_sequence : InitSequenceVals,
     width : DimVals, height : DimVals, start : StartVals,
     rotation : CtorRotations, mirrored : BOOLEAN, color_depth : DepthVals,
     bgr : BOOLEAN, invert : BOOLEAN, brightness : BrightnessVals,
     backlight : BacklightVals, hook : Hooks,
     touch_rotation_table : {_DEFAULT_TOUCH_ROTATION_TABLE}]

(* the signature's defaults, on a bus with tx_color *)
CtorDefaults ==
    [bus |-> "lcd_bus",
     init_sequence |-> [kind |-> "none", bytes |-> << >>, list |-> << >>],
     width |-> 0, height |-> 0, start |-> <<0, 0>>,
     rotation |-> 0, mirrored |-> FALSE, color_depth |-> 16,
     bgr |-> FALSE, invert |-> FALSE, brightness |-> 100,
     backlight |-> [pin |-> "none", on_high |-> TRUE, has_cmd |-> FALSE, cmd |-> 0],
     hook |-> "base",
     touch_rotation_table |-> _DEFAULT_TOUCH_ROTATION_TABLE]

(* The controller's address window: the columns and the rows the last     *)
(* column-address and row-address commands named; none before the first.   *)
NoWindow == [col |-> << >>, row |-> << >>]

(* the window after the bus calls st.log[k], st.log[k + 1], ... *)
RECURSIVE ControllerWindow(_, _, _)
ControllerWindow(win, st, k) ==
    IF k > Len(st.log) THEN win
    ELSE LET e == st.log[k]
             lohi == IF Len(e.p) = 4
                     THEN <<e.p[1] * 256 + e.p[2], e.p[3] * 256 + e.p[4]>>
                     ELSE << >>
         IN  ControllerWindow(
                 IF e.k = "cmd" /\ e.c = st.obj._set_column_command
                 THEN [win EXCEPT !.col = lohi]
                 ELSE IF e.k = "cmd" /\ e.c = st.obj._set_row_command
                 THEN [win EXCEPT !.row = lohi]
                 ELSE win,
                 st, k + 1)

(* A driver is constructed: BusDisplay(bus, init_sequence, width=..., ...) *)
BdConstruct ==
    /\ bd.state = "none"
    /\ \E a \in CtorArgs :
        LET st == BusDisplay__init__(a)
        IN  /\ bd' = [st.obj EXCEPT !.state = IF st.err = "none" THEN "ok" ELSE "failed",
                                    !.err = st.err]
            /\ bdArgs' = a
            /\ busLog' = st.log
            /\ bdWindow' = ControllerWindow(NoWindow, st, 1)
    /\ UNCHANGED bdOp
    /\ UNCHANGED <<mVars, ibVars, ddVars, evVars, fnVars>>

-----------------------------------------------------------------------------
(* The methods called on a constructed BusDisplay. bdOp is the call, its   *)
(* arguments and the exception it raised; busLog is what that call did to  *)
(* the bus and the pins.                                                   *)

BdNoOp == [op |-> "none", args |-> << >>, err |-> "none"]

(* the touch rotation tables tried: the default, and one of other masks *)
TouchTableVals == { _DEFAULT_TOUCH_ROTATION_TABLE, <<7, 4, 2, 1>> }

(* the drivers the methods are called on: width 1 and height MaxDim, on    *)
(* either bus, with each backlight and each touch rotation table           *)
OpsCtorArgs ==
    { [CtorDefaults EXCEPT !.bus = b, !.width = 1, !.height = MaxDim,
                           !.start = <<1, 2>>, !.backlight = l,
                           !.touch_rotation_table = t] :
        b \in BusKinds, l \in BacklightVals, t \in TouchTableVals }

OpsRotations  == {0 - 90, 0, 90, 180, 270, 450}
OpsMasks      == 0..7
OpsBrightness == {0 - 10, 0, 50, 100, 150}      \* hundredths
OpsBlitX      == {0, 300}
OpsBlitY      == {0, 1}
OpsBuf        == <<170, 85>>                    \* the buffer handed to blit

BdOthers == <<mVars, ibVars, ddVars, evVars, fnVars>>

(* a method's outcome becomes the state *)
BdDo(op, args, st) ==
    /\ bd' = st.obj
    /\ bdOp' = [op |-> op, args |-> args, err |-> st.err]
    /\ bdWindow' = ControllerWindow(bdWindow, st, 1)
    /\ busLog' = st.log
    /\ UNCHANGED <<bdArgs, BdOthers>>

(* the state a method starts from *)
BdSelf == [obj |-> bd, log |-> << >>, err |-> "none"]

BdSetRotation ==
    /\ bd.state = "ok"
    /\ \E value \in OpsRotations :
          BdDo("rotation", <<value>>, bd_set_rotation(BdSelf, value))

BdSetTouchRotationMask ==
    /\ bd.state = "ok"
    /\ \E mask \in OpsMasks :
          BdDo("set_touch_rotation_mask", <<mask>>, set_touch_rotation_mask(BdSelf, mask))

BdSetBrightness ==
    /\ bd.state = "ok"
    /\ \E value \in OpsBrightness :
          BdDo("brightness", <<value>>, bd_set_brightness(BdSelf, value))

BdBlit ==
    /\ bd.state = "ok"
    /\ \E x \in OpsBlitX, y \in OpsBlitY, w \in DimVals, h \in DimVals :
          BdDo("blit", <<x, y, w, h>>, blit(BdSelf, x, y, w, h, OpsBuf))

(* the callback's answers tried: none, a point, a list of two points, an   *)
(* empty list; coordinates up to MaxDim, one past the panel's last         *)
TouchCoords == 0..MaxDim

TouchReads ==
    { TouchRead("absent", << >>), TouchRead("none", << >>), TouchRead("list", << >>) }
    \cup { TouchRead("point", << <<x, y>> >>) : x \in TouchCoords, y \in TouchCoords }
    \cup { TouchRead("list", << <<x, y>>, <<MaxDim, 0>> >>) :
              x \in TouchCoords, y \in TouchCoords }

BdGetTouched ==
    /\ bd.state = "ok"
    /\ \E touched \in TouchReads :
          LET st == get_touched(BdSelf, touched)
          IN  /\ bd' = st.obj
              /\ busLog' = st.log
              /\ bdOp' = [op |-> "get_touched", args |-> <<touched>>, err |-> st.err,
                          ret |-> st.ret]
    /\ UNCHANGED <<bdArgs, bdWindow, BdOthers>>

MaxFill == 3        \* fill_rect widths and heights range over 0..MaxFill

FillDims   == 0..MaxFill
FillX      == {0, 3}
FillY      == {0, 1}
FillColors == {258, 63488}          \* 0x0102, and red

BdFillRect ==
    /\ bd.state = "ok"
    /\ \E x \in FillX, y \in FillY, w \in FillDims, h \in FillDims, color \in FillColors :
          BdDo("fill_rect", <<x, y, w, h, color>>, fill_rect(BdSelf, x, y, w, h, color))

BdSetRenderModeFull ==
    /\ bd.state = "ok"
    /\ \E full \in BOOLEAN :
          BdDo("set_render_mode_full", <<full>>, set_render_mode_full(BdSelf, full))

-----------------------------------------------------------------------------
(* DisplayDriver (pydevices): rotation and the vertical-scroll state.      *)
(* dd holds the fields; scroll_set tells whether _tfa, _vsa and _bfa exist *)
(* (vscrdef creates them), vssa_set whether _vssa holds a number (it is    *)
(* False after __init__). ddOut is the last call: its name, the exception  *)
(* raised, the value returned (ret_none: it returned None) and the hooks   *)
(* it called, in order.                                                    *)

MaxDdDim == 2       \* _width and _height range over 1..MaxDdDim
MaxScroll == 6      \* scroll start addresses range over -MaxScroll..MaxScroll

DdDimVals      == 1..MaxDdDim
AreaVals       == 0..MaxDdDim                   \* vsa tried
FixedAreaVals  == {0, 1}                        \* tfa and bfa tried
VssaVals       == (0 - MaxScroll)..MaxScroll    \* vscsad arguments tried
DdRotationVals == {0, 1, 90}                    \* rotation assignments tried
ScrollDx       == {0, 1}
ScrollDy       == {0 - 1, 0, 2}

(* width / height properties *)
DdWidth(d) ==
    IF (d._rotation \div 90) % 2 = 1 THEN d._height ELSE d._width

DdHeight(d) ==
    IF (d._rotation \div 90) % 2 = 1 THEN d._width ELSE d._height

DdResult(d, op, args, err, ret_none, ret, calls) ==
    [dd |-> d,
     out |-> [op |-> op, args |-> args, err |-> err, ret_none |-> ret_none,
              ret |-> ret, calls |-> calls]]

(* for a mutation check: the fields stored before the sum is checked *)
vscrdef_StoreFirst(d, tfa, vsa, bfa) ==
    DdResult([d EXCEPT !.scroll_set = TRUE, !._tfa = tfa, !._vsa = vsa, !._bfa = bfa],
             "vscrdef", <<tfa, vsa, bfa>>,
             IF tfa + vsa + bfa # DdHeight(d) THEN "ValueError" ELSE "none",
             TRUE, 0, << >>)

(* vscrdef(tfa, vsa, bfa) *)
vscrdef(d, tfa, vsa, bfa) ==
    IF tfa + vsa + bfa # DdHeight(d)
    THEN DdResult(d, "vscrdef", <<tfa, vsa, bfa>>, "ValueError", TRUE, 0, << >>)
    ELSE DdResult([d EXCEPT !.scroll_set = TRUE,
                            !._tfa = tfa, !._vsa = vsa, !._bfa = bfa],
                  "vscrdef", <<tfa, vsa, bfa>>, "none", TRUE, 0, << >>)

(* while vssa < 0: vssa += self._height *)
RECURSIVE AddWhileNegative(_, _)
AddWhileNegative(vssa, h) ==
    IF vssa < 0 THEN AddWhileNegative(vssa + h, h) ELSE vssa

(* the two wrapping statements of vscsad, for 1 <= self._height *)
WrapVssa(vssa, h) ==
    LET v == AddWhileNegative(vssa, h)
    IN  IF v >= h THEN v % h ELSE v

(* vscsad(vssa) with an argument: wraps, stores, returns the wrapped value *)
vscsad(d, vssa) ==
    LET v == WrapVssa(vssa, d._height)
    IN  DdResult([d EXCEPT !.vssa_set = TRUE, !._vssa = v],
                 "vscsad", <<vssa>>, "none", FALSE, v, << >>)

(* vscsad() without an argument: vssa is None, nothing is stored and the   *)
(* parameter, None, is returned.                                           *)
vscsad_none(d) ==
    DdResult(d, "vscsad()", << >>, "none", TRUE, 0, << >>)

(* Python's a % b for b # 0: the result takes the sign of b *)
PyMod(a, b) == IF b > 0 THEN a % b ELSE 0 - ((0 - a) % (0 - b))

(* vscroll setter: self.vscsad((y % self._vsa) + self._tfa) *)
set_vscroll_property(d, y, op, args) ==
    IF ~d.scroll_set THEN DdResult(d, op, args, "AttributeError", TRUE, 0, << >>)
    ELSE IF d._vsa = 0 THEN DdResult(d, op, args, "ZeroDivisionError", TRUE, 0, << >>)
    ELSE LET r == vscsad(d, PyMod(y, d._vsa) + d._tfa)
         IN  DdResult(r.dd, op, args, "none", TRUE, 0, << >>)

(* set_vscroll(tfa, bfa) *)
set_vscroll(d, tfa, bfa) ==
    LET r == vscrdef(d, tfa, DdHeight(d) - tfa - bfa, bfa)
    IN  IF r.out.err # "none"
        THEN DdResult(r.dd, "set_vscroll", <<tfa, bfa>>, r.out.err, TRUE, 0, << >>)
        ELSE set_vscroll_property(r.dd, 0, "set_vscroll", <<tfa, bfa>>)

(* scroll(dx, dy): self._vssa is False or a number, never None, and        *)
(* False + dy is dy.                                                       *)
scroll(d, dx, dy) ==
    LET d1 == IF dy # 0
              THEN vscsad(d, (IF d.vssa_set THEN d._vssa ELSE 0) + dy).dd
              ELSE d
    IN  DdResult(d1, "scroll", <<dx, dy>>,
                 IF dx # 0 THEN "NotImplementedError" ELSE "none", TRUE, 0, << >>)

(* for a mutation check: the attached touch device left as it is *)
dd_set_rotation_TouchLeft(d, value0) ==
    LET value == IF value0 % 90 # 0 THEN value0 * 90 ELSE value0
    IN  IF value = d._rotation
        THEN DdResult(d, "rotation", <<value0>>, "none", TRUE, 0, << >>)
        ELSE DdResult([d EXCEPT !._rotation = value],
                      "rotation", <<value0>>, "none", TRUE, 0,
                      <<"_rotation_helper", "_rotation", "init">>)

(* rotation setter. _rotation_helper is empty in this class and init() is  *)
(* the subclass's hook: neither touches the fields modelled here. calls    *)
(* lists what the setter does in order: the hook, the assignment to        *)
(* self._rotation, the assignment to the touch device's rotation, init().  *)
dd_set_rotation(d, value0) ==
    LET value == IF value0 % 90 # 0 THEN value0 * 90 ELSE value0
    IN  IF value = d._rotation
        THEN DdResult(d, "rotation", <<value0>>, "none", TRUE, 0, << >>)
        ELSE DdResult([d EXCEPT !._rotation = value,
                                !.touch_rotation =
                                    IF d.touch # "none" THEN value ELSE @],
                      "rotation", <<value0>>, "none", TRUE, 0,
                      <<"_rotation_helper", "_rotation">>
                      \o (IF d.touch # "none" THEN <<"touch.rotation">> ELSE << >>)
                      \o <<"init">>)

MaxDepth == 3       \* the calls the interpreter nests before RecursionError

(* __del__ and deinit(), each as the frame at the given depth: deinit      *)
(* calls self.__del__() and __del__ calls self.deinit(); a call past the   *)
(* interpreter's limit raises RecursionError. The result is the names of   *)
(* the frames entered.                                                     *)
RECURSIVE dd__del__(_), dd_deinit(_)
dd__del__(depth) ==
    IF depth > MaxDepth THEN << >> ELSE <<"__del__">> \o dd_deinit(depth + 1)

dd_deinit(depth) ==
    IF depth > MaxDepth THEN << >> ELSE <<"deinit">> \o dd__del__(depth + 1)

(* deinit() called on the driver *)
deinit(d) ==
    LET frames == dd_deinit(1)
    IN  DdResult(d, "deinit", << >>,
                 IF Len(frames) >= MaxDepth THEN "RecursionError" ELSE "none",
                 TRUE, 0, frames)

(* what is assigned to touch_device: None, an object with a rotation       *)
(* attribute, an object without one                                        *)
TouchDeviceVals == {"none", "touch", "plain"}

(* touch_device setter *)
set_touch_device(d, value) ==
    IF value \in {"touch", "none"}
    THEN LET d1 == [d EXCEPT !.touch = value]
         IN  IF value = "none"
             THEN \* None has no attribute rotation to assign
                  DdResult(d1, "touch_device", <<value>>, "AttributeError", TRUE, 0, << >>)
             ELSE DdResult([d1 EXCEPT !.touch_rotation = d1._rotation],
                           "touch_device", <<value>>, "none", TRUE, 0, << >>)
    ELSE DdResult(d, "touch_device", <<value>>, "ValueError", TRUE, 0, << >>)

(* translate_point(point): the scroll start address is read with           *)
(* self.vscsad(), whose result is tested for truth before tfa, bfa and vsa *)
(* are looked at.                                                          *)
translate_point(d, point) ==
    LET x == point[1]
        y == point[2]
        got == vscsad_none(d).out
        truthy == ~got.ret_none /\ got.ret # 0
    IN  IF ~truthy
        THEN DdResult(d, "translate_point", point, "none", FALSE, <<x, y>>, << >>)
        ELSE IF ~d.scroll_set
        THEN DdResult(d, "translate_point", point, "AttributeError", TRUE, 0, << >>)
        ELSE IF d._tfa < y /\ y < DdHeight(d) - d._bfa
        THEN LET y1 == y + got.ret - d._tfa
             IN  IF y1 >= d._vsa + d._tfa
                 THEN IF d._vsa = 0
                      THEN DdResult(d, "translate_point", point, "ZeroDivisionError",
                                    TRUE, 0, << >>)
                      ELSE DdResult(d, "translate_point", point, "none", FALSE,
                                    <<x, PyMod(y1, d._vsa)>>, << >>)
                 ELSE DdResult(d, "translate_point", point, "none", FALSE, <<x, y1>>, << >>)
        ELSE DdResult(d, "translate_point", point, "none", FALSE, <<x, y>>, << >>)

PointVals == { <<1, y>> : y \in 0..MaxDdDim }     \* points translated

DdNew(w, h) ==
    [_width |-> w, _height |-> h, _rotation |-> 0,
     scroll_set |-> FALSE, _tfa |-> 0, _vsa |-> 0, _bfa |-> 0,
     vssa_set |-> FALSE, _vssa |-> 0,
     touch |-> "none", touch_rotation |-> 0]

DdNoCall == [op |-> "none", args |-> << >>, err |-> "none", ret_none |-> TRUE,
             ret |-> 0, calls |-> << >>]

DdIdle == [dd |-> DdNew(1, 1), out |-> DdNoCall]

DdOthers == <<mVars, ibVars, bdVars, evVars, fnVars>>

DdDo(r) == dd' = r.dd /\ ddOut' = r.out

DdVscrdef ==
    /\ \E tfa \in FixedAreaVals, vsa \in AreaVals, bfa \in FixedAreaVals :
        DdDo(vscrdef(dd, tfa, vsa, bfa))
    /\ UNCHANGED DdOthers

DdSetVscroll ==
    /\ \E tfa \in FixedAreaVals, bfa \in FixedAreaVals : DdDo(set_vscroll(dd, tfa, bfa))
    /\ UNCHANGED DdOthers

DdVscsad ==
    /\ \E vssa \in VssaVals : DdDo(vscsad(dd, vssa))
    /\ UNCHANGED DdOthers

DdVscsadNoArg ==
    /\ DdDo(vscsad_none(dd))
    /\ UNCHANGED DdOthers

DdScroll ==
    /\ \E dx \in ScrollDx, dy \in ScrollDy : DdDo(scroll(dd, dx, dy))
    /\ UNCHANGED DdOthers

DdRotation ==
    /\ \E value \in DdRotationVals : DdDo(dd_set_rotation(dd, value))
    /\ UNCHANGED DdOthers

(* the integers assigned to rotation: quarter-turn counts, degrees, and    *)
(* values past a full turn and below zero                                  *)
AssignedRotations == {0 - 1, 0, 1, 2, 3, 4, 5, 90, 180, 270, 360}

DdAssignRotation ==
    /\ \E value \in AssignedRotations : DdDo(dd_set_rotation(dd, value))
    /\ UNCHANGED DdOthers

DdTranslatePoint ==
    /\ \E point \in PointVals : DdDo(translate_point(dd, point))
    /\ UNCHANGED DdOthers

DdDeinit ==
    /\ DdDo(deinit(dd))
    /\ UNCHANGED DdOthers

DdSetTouchDevice ==
    /\ \E value \in TouchDeviceVals : DdDo(set_touch_device(dd, value))
    /\ UNCHANGED DdOthers

-----------------------------------------------------------------------------
(* Events: the class's attributes, and Events.new.                         *)
(* A name is the sequence of its characters, so that str.upper() and       *)
(* str.lower() are computed character by character. ev maps each attribute *)
(* name of the class to what it holds: kind ("type", "class", "counter"    *)
(* for _USER_TYPE_BASE, "other" for filter and new), value (a type's code, *)
(* the counter's value), how it got there ("builtin"; "explicit": the      *)
(* value given; "auto": no value given, the counter's value; "zero": a     *)
(* value given that is falsy, the counter's value) and a class's fields.   *)

_USER_TYPE_BASE == 32768    \* 0x8000

LowerCase == <<"a","b","c","d","e","f","g","h","i","j","k","l","m",
               "n","o","p","q","r","s","t","u","v","w","x","y","z">>
UpperCase == <<"A","B","C","D","E","F","G","H","I","J","K","L","M",
               "N","O","P","Q","R","S","T","U","V","W","X","Y","Z">>

UpperChar(c) ==
    IF \E i \in 1..26 : LowerCase[i] = c
    THEN UpperCase[CHOOSE i \in 1..26 : LowerCase[i] = c]
    ELSE c

LowerChar(c) ==
    IF \E i \in 1..26 : UpperCase[i] = c
    THEN LowerCase[CHOOSE i \in 1..26 : UpperCase[i] = c]
    ELSE c

(* type_name.upper() *)
StrUpper(name) == [i \in 1..Len(name) |-> UpperChar(name[i])]

(* str.lower() *)
StrLower(name) == [i \in 1..Len(name) |-> LowerChar(name[i])]

(* event_class_name[0].upper() + event_class_name[1:].lower() *)
ClassName(name) ==
    <<UpperChar(name[1])>> \o StrLower(SubSeq(name, 2, Len(name)))

EvAttr(kind, value, how, fields) ==
    [kind |-> kind, value |-> value, how |-> how, fields |-> fields]

CounterName == <<"_","U","S","E","R","_","T","Y","P","E","_","B","A","S","E">>

(* The attributes of the class as it is defined. *)
EventsClass ==
    (<<"Q", "U", "I", "T">> :> EvAttr("type", 256, "builtin", "")) @@   \* 0x100
    (<<"K", "E", "Y", "D", "O", "W", "N">> :> EvAttr("type", 768, "builtin", "")) @@   \* 0x300
    (<<"K", "E", "Y", "U", "P">> :> EvAttr("type", 769, "builtin", "")) @@   \* 0x301
    (<<"M", "O", "U", "S", "E", "M", "O", "T", "I", "O", "N">> :> EvAttr("type", 1024, "builtin", "")) @@   \* 0x400
    (<<"M", "O", "U", "S", "E", "B", "U", "T", "T", "O", "N", "D", "O", "W", "N">> :> EvAttr("type", 1025, "builtin", "")) @@   \* 0x401
    (<<"M", "O", "U", "S", "E", "B", "U", "T", "T", "O", "N", "U", "P">> :> EvAttr("type", 1026, "builtin", "")) @@   \* 0x402
    (<<"M", "O", "U", "S", "E", "W", "H", "E", "E", "L">> :> EvAttr("type", 1027, "builtin", "")) @@   \* 0x403
    (<<"J", "O", "Y", "A", "X", "I", "S", "M", "O", "T", "I", "O", "N">> :> EvAttr("type", 1536, "builtin", "")) @@   \* 0x600
    (<<"J", "O", "Y", "B", "A", "L", "L", "M", "O", "T", "I", "O", "N">> :> EvAttr("type", 1537, "builtin", "")) @@   \* 0x601
    (<<"J", "O", "Y", "H", "A", "T", "M", "O", "T", "I", "O", "N">> :> EvAttr("type", 1538, "builtin", "")) @@   \* 0x602
    (<<"J", "O", "Y", "B", "U", "T", "T", "O", "N", "D", "O", "W", "N">> :> EvAttr("type", 1539, "builtin", "")) @@   \* 0x603
    (<<"J", "O", "Y", "B", "U", "T", "T", "O", "N", "U", "P">> :> EvAttr("type", 1540, "builtin", "")) @@   \* 0x604
    (<<"U", "n", "k", "n", "o", "w", "n">> :> EvAttr("class", 0, "builtin", "type")) @@
    (<<"M", "o", "t", "i", "o", "n">> :> EvAttr("class", 0, "builtin", "type pos rel buttons touch window")) @@
    (<<"B", "u", "t", "t", "o", "n">> :> EvAttr("class", 0, "builtin", "type pos button touch window")) @@
    (<<"W", "h", "e", "e", "l">> :> EvAttr("class", 0, "builtin", "type flipped x y precise_x precise_y touch window")) @@
    (<<"K", "e", "y">> :> EvAttr("class", 0, "builtin", "type name key mod scancode window")) @@
    (<<"Q", "u", "i", "t">> :> EvAttr("class", 0, "builtin", "type")) @@
    (<<"A", "n", "y">> :> EvAttr("class", 0, "builtin", "type")) @@
    (<<"_", "U", "S", "E", "R", "_", "T", "Y", "P", "E", "_", "B", "A", "S", "E">> :> EvAttr("counter", _USER_TYPE_BASE, "builtin", "")) @@
    (<<"f", "i", "l", "t", "e", "r">> :> EvAttr("other", 0, "builtin", "")) @@
    (<<"n", "e", "w">> :> EvAttr("other", 0, "builtin", ""))

(* hasattr(Events, name) *)
hasattr(e, name) == name \in DOMAIN e

(* setattr(Events, name, attr) *)
setattr(e, name, attr) == [n \in DOMAIN e \cup {name} |-> IF n = name THEN attr ELSE e[n]]

(* for a mutation check: a type registered without the check for its name *)
NewType_NoCheck(st, entry) ==
    LET type_name == StrUpper(entry.name)
        base == st.ev[CounterName].value
    IN  [st EXCEPT
           !.ev = setattr(st.ev, type_name,
                          EvAttr("type", IF entry.has_value THEN entry.value ELSE base,
                                 IF entry.has_value THEN "explicit" ELSE "auto", "")),
           !.out.registered = Append(@, [raw |-> entry.name, name |-> type_name])]

(* for a mutation check: the counter left as it is after an assignment *)
NextBase_Stuck(base) == base

(* Events._USER_TYPE_BASE += 1 *)
NextBase(base) == base + 1

(* One pass of the loop over types. entry: [name, has_value, value]; a     *)
(* bare name has no value (None). "value if value" and "not value" test    *)
(* the value's truth, so that None and 0 both take the counter.            *)
NewType(st, entry) ==
    LET type_name == StrUpper(entry.name)
        truthy == entry.has_value /\ entry.value # 0
        base == st.ev[CounterName].value
    IN  IF hasattr(st.ev, type_name)
        THEN [st EXCEPT !.out.err = "ValueError", !.out.failed = type_name]
        ELSE LET e1 == setattr(st.ev, type_name,
                           EvAttr("type", IF truthy THEN entry.value ELSE base,
                                  IF truthy THEN "explicit"
                                  ELSE IF entry.has_value THEN "zero" ELSE "auto",
                                  ""))
                 e2 == IF ~truthy
                       THEN [e1 EXCEPT ![CounterName].value = NextBase(base)]
                       ELSE e1
             IN  [st EXCEPT !.ev = e2,
                            !.out.registered =
                                Append(@, [raw |-> entry.name, name |-> type_name])]

(* One pass of the loop over classes.items(). entry: [name, fields] *)
NewClass(st, entry) ==
    LET event_class_name == ClassName(entry.name)
    IN  IF hasattr(st.ev, event_class_name)
        THEN [st EXCEPT !.out.err = "ValueError", !.out.failed = event_class_name]
        ELSE [st EXCEPT
                !.ev = setattr(st.ev, event_class_name,
                               EvAttr("class", 0, "explicit", entry.fields)),
                !.out.registered =
                    Append(@, [raw |-> entry.name, name |-> event_class_name])]

RECURSIVE NewTypes(_, _, _)
NewTypes(st, types, k) ==
    IF k > Len(types) \/ st.out.err # "none" THEN st
    ELSE NewTypes(NewType(st, types[k]), types, k + 1)

RECURSIVE NewClasses(_, _, _)
NewClasses(st, classes, k) ==
    IF k > Len(classes) \/ st.out.err # "none" THEN st
    ELSE NewClasses(NewClass(st, classes[k]), classes, k + 1)

(* evOut: the last call; given counts the types and classes it was handed, *)
(* registered lists the names it set, in order, each with the name as     *)
(* given, and failed is the name the ValueError was raised for.           *)
EvNoCall == [called |-> FALSE, given |-> 0, err |-> "none", failed |-> << >>,
             registered |-> << >>]

(* Events.new(types, classes) *)
Events_new(e, types, classes) ==
    LET s0 == [ev |-> e,
               out |-> [EvNoCall EXCEPT !.called = TRUE,
                                        !.given = Len(types) + Len(classes)]]
    IN  NewClasses(NewTypes(s0, types, 1), classes, 1)

MaxEntries == 2     \* types and classes given to one call, together

TypeNameVals  == { <<"f","o","o">>, <<"B","a","r">>, <<"q","u","i","t">> }
ClassNameVals == { <<"f","o","o">>, <<"K","E","Y">> }
ValuedNameVals == { <<"f","o","o">> }      \* the names also tried with a value
TypeValueVals == { 0, _USER_TYPE_BASE }

TypeEntries ==
    { [name |-> n, has_value |-> FALSE, value |-> 0] : n \in TypeNameVals }
    \cup { [name |-> n, has_value |-> TRUE, value |-> v] :
             n \in ValuedNameVals, v \in TypeValueVals }

ClassEntries == { [name |-> n, fields |-> "type value"] : n \in ClassNameVals }

SeqsUpTo(S, n) == UNION { [1..k -> S] : k \in 0..n }

(* classes is a dict: its keys are distinct *)
ClassLists(n) ==
    { c \in SeqsUpTo(ClassEntries, n) :
        \A i, j \in 1..Len(c) : i # j => c[i].name # c[j].name }

EvOthers == <<mVars, ibVars, bdVars, ddVars, fnVars>>

EvNew ==
    /\ \E types \in SeqsUpTo(TypeEntries, MaxEntries) :
         \E classes \in ClassLists(MaxEntries - Len(types)) :
            LET st == Events_new(ev, types, classes)
            IN  ev' = st.ev /\ evOut' = st.out
    /\ UNCHANGED EvOthers

-----------------------------------------------------------------------------
(* DisplayDriver.blit_transparent                                          *)
(* buf is a sequence of bytes, BPP of them to the pixel. btCall holds the  *)
(* arguments of a call and, once it was made, the blit_rect calls it made  *)
(* in order, [buf, x, y, w, h] each, and the Area it returned.             *)

MaxPixels == 4      \* w * h of the buffers tried is at most MaxPixels

BtByteVals == {0, 1}                    \* the values of a buffer's bytes
BtKeyVals  == {0, 1, 256}               \* the key colours tried
BtBpp      == {1, 2}                    \* color_depth // 8 for depths 8 and 16
BtOrigins  == { <<0, 0>>, <<1, 2>> }    \* (x, y) tried

(* key.to_bytes(BPP, "little"), for a key that fits *)
KeyBytes(key, BPP) == [i \in 1..BPP |-> (key \div (256 ^ (i - 1))) % 256]

(* for a mutation check: a run ended after its first pixel *)
RunEnd_OnePixel(buf, rowstart, colend, stride, BPP, key_bytes) == colend + BPP

(* the inner loop: the first colend >= the one given, in steps of BPP,     *)
(* where the pixel is the key, or stride when there is none                *)
RECURSIVE RunEnd(_, _, _, _, _, _)
RunEnd(buf, rowstart, colend, stride, BPP, key_bytes) ==
    IF colend < stride
    THEN IF Slice(buf, rowstart + colend, rowstart + colend + BPP) = key_bytes
         THEN colend
         ELSE RunEnd(buf, rowstart, colend + BPP, stride, BPP, key_bytes)
    ELSE colend

(* the loop over the columns of row j, from colstart on *)
RECURSIVE BtRow(_, _, _, _, _, _, _, _, _)
BtRow(calls, buf, x, y, j, colstart, stride, BPP, key_bytes) ==
    LET rowstart == j * stride
    IN  IF colstart >= stride THEN calls
        ELSE IF Slice(buf, rowstart + colstart, rowstart + colstart + BPP) # key_bytes
        THEN LET colend == RunEnd(buf, rowstart, colstart, stride, BPP, key_bytes)
                 call == [buf |-> Slice(buf, rowstart + colstart, rowstart + colend),
                          x |-> x + colstart \div BPP,
                          y |-> y + j,
                          w |-> (colend - colstart) \div BPP,
                          h |-> 1]
             IN  BtRow(Append(calls, call), buf, x, y, j, colend, stride, BPP, key_bytes)
        ELSE BtRow(calls, buf, x, y, j, colstart + BPP, stride, BPP, key_bytes)

(* for j in range(h) *)
RECURSIVE BtRows(_, _, _, _, _, _, _, _, _)
BtRows(calls, buf, x, y, j, h, stride, BPP, key_bytes) ==
    IF j >= h THEN calls
    ELSE BtRows(BtRow(calls, buf, x, y, j, 0, stride, BPP, key_bytes),
                buf, x, y, j + 1, h, stride, BPP, key_bytes)

(* Area(x, y, w, h) *)
Area(x, y, w, h) == [x |-> x, y |-> y, w |-> w, h |-> h]

(* blit_transparent(buf, x, y, w, h, key) of a driver with BPP bytes to    *)
(* the pixel; to_bytes raises OverflowError for a key that does not fit.   *)
blit_transparent(BPP, buf, x, y, w, h, key) ==
    IF key >= 256 ^ BPP
    THEN [err |-> "OverflowError", calls |-> << >>, ret |-> Area(0, 0, 0, 0)]
    ELSE [err |-> "none",
          calls |-> BtRows(<< >>, buf, x, y, 0, h, w * BPP, BPP, KeyBytes(key, BPP)),
          ret |-> Area(x, y, w, h)]

BtShapes == { wh \in (0..MaxPixels) \X (0..MaxPixels) : wh[1] * wh[2] <= MaxPixels }

BtArgs ==
    UNION { [bpp : {b}, buf : [1..(wh[1] * wh[2] * b) -> BtByteVals], xy : BtOrigins,
             w : {wh[1]}, h : {wh[2]}, key : BtKeyVals] :
            b \in BtBpp, wh \in BtShapes }

BtNotCalled(a) ==
    [called |-> FALSE, a |-> a, err |-> "none", calls |-> << >>, ret |-> Area(0, 0, 0, 0)]

BtIdle == BtNotCalled([bpp |-> 1, buf |-> << >>, xy |-> <<0, 0>>, w |-> 0, h |-> 0, key |-> 0])

BlitTransparentCall ==
    /\ ~btCall.called
    /\ LET a == btCall.a
           r == blit_transparent(a.bpp, a.buf, a.xy[1], a.xy[2], a.w, a.h, a.key)
       IN  btCall' = [called |-> TRUE, a |-> a, err |-> r.err, calls |-> r.calls,
                      ret |-> r.ret]
    /\ UNCHANGED <<mVars, ibVars, bdVars, ddVars, evVars, arCall, colCall, cfg>>

-----------------------------------------------------------------------------
(* Area.intersects and Area.touches_or_intersects                          *)

MaxArea == 2        \* x, y, w and h of the areas tried range over 0..MaxArea

AreaGrid == { Area(x, y, w, h) : x \in 0..MaxArea, y \in 0..MaxArea,
                                 w \in 0..MaxArea, h \in 0..MaxArea }

(* the pairs tried: the grid's, and the documented pair *)
AreaPairs == (AreaGrid \X AreaGrid) \cup { <<Area(0, 0, 10, 10), Area(10, 0, 10, 10)>> }

(* self.intersects(other) *)
intersects(self, other) ==
    IF self.x + self.w <= other.x \/ other.x + other.w <= self.x THEN FALSE
    ELSE IF self.y + self.h <= other.y \/ other.y + other.h <= self.y THEN FALSE
    ELSE TRUE

(* self.touches_or_intersects(other) *)
touches_or_intersects(self, other) ==
    IF self.x + self.w < other.x \/ other.x + other.w < self.x THEN FALSE
    ELSE IF self.y + self.h < other.y \/ other.y + other.h < self.y THEN FALSE
    ELSE TRUE

ArNotCalled(a, b) ==
    [called |-> FALSE, a |-> a, b |-> b, intersects |-> FALSE, touches |-> FALSE]

ArIdle == ArNotCalled(Area(0, 0, 0, 0), Area(0, 0, 0, 0))

AreaCall ==
    /\ ~arCall.called
    /\ arCall' = [arCall EXCEPT !.called = TRUE,
                                !.intersects = intersects(arCall.a, arCall.b),
                                !.touches = touches_or_intersects(arCall.a, arCall.b)]
    /\ UNCHANGED <<mVars, ibVars, bdVars, ddVars, evVars, btCall, colCall, cfg>>

-----------------------------------------------------------------------------
(* color565 and color_rgb                                                  *)

MaxSamples == 12    \* channel values tried besides 0, 7, 8 and 255

(* 37 is odd: its multiples mod 256 are distinct channel values *)
ChannelVals == {0, 7, 8, 255} \cup { (37 * k) % 256 : k \in 1..MaxSamples }

(* a << n and a >> n *)
Shl(a, n) == a * (2 ^ n)
Shr(a, n) == a \div (2 ^ n)

(* for a mutation check: the channels shifted into place without masks *)
color565_NoMask(r, g, b) == BitOr(BitOr(Shl(r, 8), Shl(g, 3)), Shr(b, 3))

(* ((r & 0xF8) << 8) | ((g & 0xFC) << 3) | (b >> 3) *)
color565(r, g, b) ==
    BitOr(BitOr(Shl(BitAnd(r, 248), 8), Shl(BitAnd(g, 252), 3)), Shr(b, 3))

(* color_rgb(color) for an int: color = (color & 0xFF, color >> 8), then   *)
(* the branch for length 2. << and >> bind tighter than &, & than |.       *)
color_rgb(color) ==
    LET c0 == BitAnd(color, 255)
        c1 == Shr(color, 8)
        r == BitOr(BitAnd(c1, 248), BitAnd(Shr(c1, 5), 7))
        g == BitOr(BitAnd(Shl(c1, 5), 224), BitAnd(Shr(c0, 3), 31))
        b == BitOr(BitAnd(Shl(c0, 3), 248), BitAnd(Shr(c0, 2), 7))
    IN  <<r, g, b>>

ColNotCalled(r, g, b) ==
    [called |-> FALSE, r |-> r, g |-> g, b |-> b, color |-> 0, rgb |-> <<0, 0, 0>>]

ColIdle == ColNotCalled(0, 0, 0)

ColorCall ==
    /\ ~colCall.called
    /\ LET color == color565(colCall.r, colCall.g, colCall.b)
       IN  colCall' = [colCall EXCEPT !.called = TRUE, !.color = color,
                                      !.rgb = color_rgb(color)]
    /\ UNCHANGED <<mVars, ibVars, bdVars, ddVars, evVars, btCall, arCall, cfg>>

-----------------------------------------------------------------------------
(* configs/board_config.py: the script that picks the display backend.     *)

board_width    == 320
board_height   == 480
board_rotation == 0
board_scale    == 200           \* hundredths: 2.0

(* What the script finds around it: whether `import pyscript` succeeds,    *)
(* whether the name get_ipython is defined, and the two sys strings the    *)
(* desktop window's title is made of.                                      *)
CfgEnvs ==
    [ pyscript       : BOOLEAN,
      get_ipython    : BOOLEAN,
      implementation : {"cpython", "micropython"},
      platform       : {"linux", "darwin", "win32", "webassembly"} ]

(* a display object: its class, its constructor arguments, the fill calls *)
NoDisplay == [cls |-> "unbound", args |-> << >>, fills |-> << >>]

(* the script before its line 10, in environment env *)
CfgStart(env) ==
    [ pc          |-> "start",
      env         |-> env,
      _ps         |-> FALSE,
      _jn         |-> FALSE,
      names       |-> {},               \* the globals bound so far
      display_drv |-> NoDisplay,
      broker      |-> << >> ]           \* the devices created on the broker

CfgIdle == CfgStart([pyscript |-> FALSE, get_ipython |-> FALSE,
                     implementation |-> "cpython", platform |-> "linux"])

(* broker.create_device(type=..., read=..., data=...) *)
create_device(broker, type, read, data) ==
    Append(broker, [type |-> type, read |-> read, data |-> data])

(* display_drv.fill(color) *)
fill(display, color) == [display EXCEPT !.fills = Append(@, color)]

(* lines 10-20: _ps if `import pyscript` succeeds; otherwise _jn if        *)
(* get_ipython() raises no NameError                                       *)
CfgProbe ==
    /\ cfg.pc = "start"
    /\ cfg' = [cfg EXCEPT !.pc = "probed",
                          !._ps = cfg.env.pyscript,
                          !._jn = ~cfg.env.pyscript /\ cfg.env.get_ipython]
    /\ UNCHANGED <<mVars, ibVars, bdVars, ddVars, evVars, btCall, arCall, colCall>>

(* lines 22-36: the `if _ps:` branch *)
CfgBrowser ==
    /\ cfg.pc = "probed"
    /\ cfg._ps
    /\ cfg' = [cfg EXCEPT
                 !.pc = "configured",
                 !.names = {"display_drv", "broker", "touch_drv", "touch_dev"},
                 !.display_drv = [cls |-> "PSDisplay",
                                  args |-> <<"display_canvas", board_width, board_height>>,
                                  fills |-> << >>],
                 !.broker = create_device(<< >>, "TOUCH", "touch_drv.get_mouse_pos",
                                          "display_drv")]
    /\ UNCHANGED <<mVars, ibVars, bdVars, ddVars, evVars, btCall, arCall, colCall>>

(* lines 37-43: the `elif _jn:` branch *)
CfgNotebook ==
    /\ cfg.pc = "probed"
    /\ ~cfg._ps
    /\ cfg._jn
    /\ cfg' = [cfg EXCEPT
                 !.pc = "configured",
                 !.names = {"display_drv", "broker"},
                 !.display_drv = [cls |-> "JNDisplay",
                                  args |-> <<board_width, board_height>>,
                                  fills |-> << >>],
                 !.broker = << >>]
    /\ UNCHANGED <<mVars, ibVars, bdVars, ddVars, evVars, btCall, arCall, colCall>>

(* lines 44-65: the `else:` branch *)
CfgDesktop ==
    /\ cfg.pc = "probed"
    /\ ~cfg._ps
    /\ ~cfg._jn
    /\ cfg' = [cfg EXCEPT
                 !.pc = "configured",
                 !.names = {"display_drv", "broker", "events_dev"},
                 !.display_drv = [cls |-> "DTDisplay",
                                  args |-> <<board_width, board_height, board_rotation, 16,
                                             <<cfg.env.implementation, " on ",
                                               cfg.env.platform>>,
                                             board_scale>>,
                                  fills |-> << >>],
                 !.broker = create_device(<< >>, "QUEUE", "poll", "display_drv")]
    /\ UNCHANGED <<mVars, ibVars, bdVars, ddVars, evVars, btCall, arCall, colCall>>

(* line 67: display_drv.fill(0) *)
CfgFill ==
    /\ cfg.pc = "configured"
    /\ cfg' = [cfg EXCEPT !.pc = "done", !.display_drv = fill(@, 0)]
    /\ UNCHANGED <<mVars, ibVars, bdVars, ddVars, evVars, btCall, arCall, colCall>>

-----------------------------------------------------------------------------
(* The specifications, one per component; the other components' variables  *)
(* stay at their idle values.                                              *)

Init ==
    /\ mCall = MadctlNotCalled
    /\ ibSeq = << >>
    /\ ibRecs = << >>
    /\ ibRaw = 0
    /\ ibRun = IbNotRun
    /\ bd = BdBlank
    /\ bdArgs = CtorDefaults
    /\ busLog = << >>
    /\ bdOp = BdNoOp
    /\ bdWindow = NoWindow
    /\ dd = DdIdle.dd
    /\ ddOut = DdIdle.out
    /\ ev = EventsClass
    /\ evOut = EvNoCall
    /\ btCall = BtIdle
    /\ arCall = ArIdle
    /\ colCall = ColIdle
    /\ cfg = CfgIdle

SpecMadctl == Init /\ [][MadctlCall]_vars

InitBytesNext == IbAppendRecord \/ IbAppendRaw \/ IbCall

SpecInitBytes == Init /\ [][InitBytesNext]_vars

SpecBus == Init /\ [][BdConstruct]_vars

(* A DisplayDriver after its subclass's constructor set the size. *)
InitDd ==
    /\ mCall = MadctlNotCalled
    /\ ibSeq = << >>
    /\ ibRecs = << >>
    /\ ibRaw = 0
    /\ ibRun = IbNotRun
    /\ bd = BdBlank
    /\ bdArgs = CtorDefaults
    /\ busLog = << >>
    /\ bdOp = BdNoOp
    /\ bdWindow = NoWindow
    /\ \E w \in DdDimVals, h \in DdDimVals : dd = DdNew(w, h)
    /\ ddOut = DdNoCall
    /\ ev = EventsClass
    /\ evOut = EvNoCall
    /\ btCall = BtIdle
    /\ arCall = ArIdle
    /\ colCall = ColIdle
    /\ cfg = CfgIdle

DdNext ==
    \/ DdVscrdef
    \/ DdSetVscroll
    \/ DdVscsad
    \/ DdVscsadNoArg
    \/ DdScroll
    \/ DdRotation
    \/ DdTranslatePoint
    \/ DdDeinit
    \/ DdSetTouchDevice

SpecDd == InitDd /\ [][DdNext]_vars

DdRotationNext == DdAssignRotation \/ DdSetTouchDevice

SpecDdRotation == InitDd /\ [][DdRotationNext]_vars

SpecEvents == Init /\ [][EvNew]_vars

(* blit_transparent applied to each of the arguments tried *)
InitBlitTransparent ==
    /\ mCall = MadctlNotCalled
    /\ ibSeq = << >>
    /\ ibRecs = << >>
    /\ ibRaw = 0
    /\ ibRun = IbNotRun
    /\ bd = BdBlank
    /\ bdArgs = CtorDefaults
    /\ busLog = << >>
    /\ bdOp = BdNoOp
    /\ bdWindow = NoWindow
    /\ dd = DdIdle.dd
    /\ ddOut = DdIdle.out
    /\ ev = EventsClass
    /\ evOut = EvNoCall
    /\ \E a \in BtArgs : btCall = BtNotCalled(a)
    /\ arCall = ArIdle
    /\ colCall = ColIdle
    /\ cfg = CfgIdle

SpecBlitTransparent == InitBlitTransparent /\ [][BlitTransparentCall]_vars

(* the two tests applied to each of the pairs tried *)
InitArea ==
    /\ mCall = MadctlNotCalled
    /\ ibSeq = << >>
    /\ ibRecs = << >>
    /\ ibRaw = 0
    /\ ibRun = IbNotRun
    /\ bd = BdBlank
    /\ bdArgs = CtorDefaults
    /\ busLog = << >>
    /\ bdOp = BdNoOp
    /\ bdWindow = NoWindow
    /\ dd = DdIdle.dd
    /\ ddOut = DdIdle.out
    /\ ev = EventsClass
    /\ evOut = EvNoCall
    /\ btCall = BtIdle
    /\ \E p \in AreaPairs : arCall = ArNotCalled(p[1], p[2])
    /\ colCall = ColIdle
    /\ cfg = CfgIdle

SpecArea == InitArea /\ [][AreaCall]_vars

(* A BusDisplay as its constructor leaves it. *)
InitBusOps ==
    /\ mCall = MadctlNotCalled
    /\ ibSeq = << >>
    /\ ibRecs = << >>
    /\ ibRaw = 0
    /\ ibRun = IbNotRun
    /\ \E a \in OpsCtorArgs :
          /\ bd = [BusDisplay__init__(a).obj EXCEPT !.state = "ok"]
          /\ bdArgs = a
          /\ bdWindow = ControllerWindow(NoWindow, BusDisplay__init__(a), 1)
    /\ busLog = << >>
    /\ bdOp = BdNoOp
    /\ dd = DdIdle.dd
    /\ ddOut = DdIdle.out
    /\ ev = EventsClass
    /\ evOut = EvNoCall
    /\ btCall = BtIdle
    /\ arCall = ArIdle
    /\ colCall = ColIdle
    /\ cfg = CfgIdle

BusTouchNext == BdSetRotation \/ BdSetTouchRotationMask

SpecBusTouch == InitBusOps /\ [][BusTouchNext]_vars

SpecBusBrightness == InitBusOps /\ [][BdSetBrightness]_vars

BusBlitNext == BdBlit \/ BdSetRenderModeFull \/ BdSetRotation

SpecBusBlit == InitBusOps /\ [][BusBlitNext]_vars

(* color565 and color_rgb applied to each of the colours tried *)
BusFillNext == BdFillRect \/ BdSetRenderModeFull

SpecBusFill == InitBusOps /\ [][BusFillNext]_vars

BusTouchReadNext == BdSetRotation \/ BdGetTouched

SpecBusTouchRead == InitBusOps /\ [][BusTouchReadNext]_vars

InitColor ==
    /\ mCall = MadctlNotCalled
    /\ ibSeq = << >>
    /\ ibRecs = << >>
    /\ ibRaw = 0
    /\ ibRun = IbNotRun
    /\ bd = BdBlank
    /\ bdArgs = CtorDefaults
    /\ busLog = << >>
    /\ bdOp = BdNoOp
    /\ bdWindow = NoWindow
    /\ dd = DdIdle.dd
    /\ ddOut = DdIdle.out
    /\ ev = EventsClass
    /\ evOut = EvNoCall
    /\ btCall = BtIdle
    /\ arCall = ArIdle
    /\ \E r \in ChannelVals, g \in ChannelVals, b \in ChannelVals :
          colCall = ColNotCalled(r, g, b)
    /\ cfg = CfgIdle

SpecColor == InitColor /\ [][ColorCall]_vars

(* board_config.py run from its first line in each of the environments *)
InitBoardConfig ==
    /\ mCall = MadctlNotCalled
    /\ ibSeq = << >>
    /\ ibRecs = << >>
    /\ ibRaw = 0
    /\ ibRun = IbNotRun
    /\ bd = BdBlank
    /\ bdArgs = CtorDefaults
    /\ busLog = << >>
    /\ bdOp = BdNoOp
    /\ bdWindow = NoWindow
    /\ dd = DdIdle.dd
    /\ ddOut = DdIdle.out
    /\ ev = EventsClass
    /\ evOut = EvNoCall
    /\ btCall = BtIdle
    /\ arCall = ArIdle
    /\ colCall = ColIdle
    /\ \E env \in CfgEnvs : cfg = CfgStart(env)

BoardConfigNext == CfgProbe \/ CfgBrowser \/ CfgNotebook \/ CfgDesktop \/ CfgFill

SpecBoardConfig == InitBoardConfig /\ [][BoardConfigNext]_vars

-----------------------------------------------------------------------------
(* Properties of BusDisplay._madctl (under SpecMadctl).                    *)

(* C1: for every rotation that is a multiple of 90, both rotation tables   *)
(* and both values of bgr, _madctl returns table[(rotation/90) mod 4]      *)
(* OR-ed with 0x08 when bgr is true and with 0x00 when it is false: 0x20   *)
(* and 0xE0 for rotations 90 and 270 of the non-mirrored table without     *)
(* bgr, 0x28 and 0xE8 with it.                                             *)
C1_MadctlIsTableEntryOrBgr ==
    (mCall.called /\ mCall.rotation % 90 = 0) =>
        /\ mCall.result =
              BitOr(RotationTable(mCall.mirrored)[((mCall.rotation \div 90) % 4) + 1],
                    IF mCall.bgr THEN 8 ELSE 0)
        /\ (~mCall.mirrored /\ ~mCall.bgr /\ mCall.rotation = 90)  => mCall.result = 32
        /\ (~mCall.mirrored /\ ~mCall.bgr /\ mCall.rotation = 270) => mCall.result = 224
        /\ (~mCall.mirrored /\ mCall.bgr /\ mCall.rotation = 90)   => mCall.result = 40
        /\ (~mCall.mirrored /\ mCall.bgr /\ mCall.rotation = 270)  => mCall.result = 232

-----------------------------------------------------------------------------
(* Properties of BusDisplay._init_bytes (under SpecInitBytes).             *)

SpecExample == <<17, 0, 41, 128, 1, 255>>   \* [0x11, 0x00, 0x29, 0x80, 0x01, 0xFF]

(* C2, as the specification states it: on [0x11, 0x00, 0x29, 0x80, 0x01,   *)
(* 0xFF] the parser sends 0x11 and then 0x29, each without parameters,     *)
(* waits 10 ms and then 500 ms, consumes 6 bytes and returns normally.     *)
C2_ExampleWaits10Then500 ==
    (ibRun.called /\ ibSeq = SpecExample) =>
        /\ Len(ibRun.sent) = 2
        /\ ibRun.sent[1].cmd = 17 /\ ibRun.sent[1].params = << >>
        /\ ibRun.sent[2].cmd = 41 /\ ibRun.sent[2].params = << >>
        /\ ibRun.waits = <<10, 500>>
        /\ ibRun.i = 6
        /\ ibRun.err = "none"

(* C2, amended: on that buffer the parser sends 0x11 and then 0x29, each   *)
(* without parameters, waits 10 ms and then 1 ms (the byte after the size  *)
(* byte 0x80 is the delay byte, 0x01), has consumed 5 bytes by then, and   *)
(* takes the last byte, 0xFF, as a third command whose size byte lies past *)
(* the end: the call fails with IndexError without sending it.             *)
C2_ExampleWaits10Then1AndFails ==
    (ibRun.called /\ ibSeq = SpecExample) =>
        /\ Len(ibRun.sent) = 2
        /\ ibRun.sent[1] = [at |-> 0, cmd |-> 17, params |-> << >>]
        /\ ibRun.sent[2] = [at |-> 2, cmd |-> 41, params |-> << >>]
        /\ ibRun.waits = <<10, 1>>
        /\ ibRun.i = 5
        /\ ibRun.err = "IndexError"

C2_ExampleParsed == ibRun.called /\ ibSeq = SpecExample

(* what the format asks of one record *)
RecordLength(r) == 2 + Len(r.params) + (IF r.flag THEN 1 ELSE 0)

RecordWait(r) == IF ~r.flag THEN 10 ELSE IF r.delay = 255 THEN 500 ELSE r.delay

(* C3: on a buffer that is a concatenation of records the parser sends the *)
(* records' commands in order, each with exactly its parameters, advances  *)
(* by 2 + n (+ 1 with the delay flag) bytes per record, and waits 10 ms    *)
(* after a command without the flag, else the delay byte in ms with 255    *)
(* replaced by 500.                                                        *)
C3_WellFormedSequenceParsed ==
    (ibRun.called /\ ibRaw = 0) =>
        /\ ibRun.err = "none"
        /\ ibRun.i = Len(ibSeq)
        /\ Len(ibRun.sent) = Len(ibRecs)
        /\ Len(ibRun.waits) = Len(ibRecs)
        /\ \A k \in 1..Len(ibRecs) :
            /\ ibRun.sent[k].cmd = ibRecs[k].cmd
            /\ ibRun.sent[k].params = ibRecs[k].params
            /\ ibRun.waits[k] = RecordWait(ibRecs[k])
            /\ (IF k < Len(ibRecs) THEN ibRun.sent[k + 1].at ELSE ibRun.i)
                 = ibRun.sent[k].at + RecordLength(ibRecs[k])
        /\ (ibRecs # << >> => ibRun.sent[1].at = 0)

C3_TwoRecordsParsed ==
    /\ ibRun.called /\ ibRaw = 0
    /\ Len(ibRecs) = 2
    /\ ibRecs[1].flag /\ ibRecs[1].delay = 255
    /\ ~ibRecs[2].flag /\ Len(ibRecs[2].params) = 1

-----------------------------------------------------------------------------
(* Properties of BusDisplay.__init__ (under SpecBus).                      *)

(* C4: when the init() hook returns without _initialized set, the          *)
(* construction fails with RuntimeError and nothing follows the hook's     *)
(* return: no brightness, inversion or COLMOD command, no backlight write. *)
C4_UninitializedHookIsFatal ==
    \A k \in 1..Len(busLog) :
        (busLog[k].k = "init.return" /\ ~bd._initialized) =>
            /\ bd.state = "failed"
            /\ bd.err = "RuntimeError"
            /\ k = Len(busLog)
            /\ \A j \in k..Len(busLog) :
                /\ busLog[j].k \notin {"backlight.value", "backlight.duty_u16"}
                /\ busLog[j].k = "cmd" =>
                      busLog[j].c \notin {_INVON, _COLMOD} \cup BrightnessCommandVals

C4_HookForgotFlag ==
    /\ bd.state = "failed"
    /\ bdArgs.hook = "forgets_flag"
    /\ bdArgs.invert
    /\ bdArgs.backlight.pin = "pwm"
    /\ bdArgs.brightness = 100
    /\ bdArgs.color_depth = 16
    /\ Len(busLog) > 0
    /\ busLog[Len(busLog)].k = "init.return"

-----------------------------------------------------------------------------
(* Properties of DisplayDriver's vertical scrolling (under SpecDd).        *)

(* C5: in every state reached by vscrdef, set_vscroll, vscsad, scroll and  *)
(* rotation assignments in which scroll has been configured, the stored    *)
(* fields satisfy tfa + vsa + bfa = height, the height property's value.   *)
C5_ScrollAreasSumToHeight ==
    dd.scroll_set => dd._tfa + dd._vsa + dd._bfa = DdHeight(dd)

(* C6: vscrdef(tfa, vsa, bfa) with tfa + vsa + bfa # height fails with     *)
(* ValueError and leaves the stored tfa, vsa and bfa (every field) as they *)
(* were; with a sum equal to height it stores exactly the three values.    *)
C6_VscrdefValidatesThenStores ==
    [][ ddOut'.op = "vscrdef" =>
          LET a == ddOut'.args
          IN  IF a[1] + a[2] + a[3] # DdHeight(dd)
              THEN ddOut'.err = "ValueError" /\ dd' = dd
              ELSE /\ ddOut'.err = "none"
                   /\ dd' = [dd EXCEPT !.scroll_set = TRUE, !._tfa = a[1],
                                       !._vsa = a[2], !._bfa = a[3]] ]_vars

C6_VscrdefRejectedAfterStored ==
    /\ ddOut.op = "vscrdef"
    /\ ddOut.err = "ValueError"
    /\ dd.scroll_set
    /\ dd._vsa > 0

(* C7: at every rotation and for every integer v, vscsad(v) stores         *)
(* v mod height, a value in [0, height), height being the height property  *)
(* that vscrdef validates against: vscsad(height + 5) stores 5 and         *)
(* vscsad(-3) stores height - 3.                                           *)
C7_VscsadStoresModHeight ==
    ddOut.op = "vscsad" =>
        /\ dd.vssa_set
        /\ dd._vssa = ddOut.args[1] % DdHeight(dd)
        /\ dd._vssa \in 0..(DdHeight(dd) - 1)

(* C8: vscsad() without an argument returns the stored scroll start        *)
(* address (after vscsad(v), the wrapped value that was stored) and does   *)
(* not modify it.                                                          *)
C8_VscsadNoArgReturnsStored ==
    (ddOut.op = "vscsad()" /\ dd.vssa_set) =>
        ~ddOut.ret_none /\ ddOut.ret = dd._vssa

(* C16: deinit() terminates and may be called any number of times: every  *)
(* call, the first or a later one, returns normally after running the      *)
(* teardown that __del__ runs.                                             *)
C16_DeinitReturns ==
    ddOut.op = "deinit" =>
        /\ ddOut.err = "none"
        /\ \E k \in 1..Len(ddOut.calls) : ddOut.calls[k] = "__del__"

(* C21: with the scroll areas configured and a non-zero scroll start       *)
(* address stored, translate_point((x, y)) with tfa < y < height - bfa     *)
(* returns (x, y') where y' = y + vssa - tfa, taken modulo vsa when it is  *)
(* vsa + tfa or more; for any other y, and when no scroll start address is *)
(* active, it returns (x, y).                                              *)
C21_TranslatePointRemapsInsideScrollArea ==
    ddOut.op = "translate_point" =>
        LET x == ddOut.args[1]
            y == ddOut.args[2]
            active == dd.scroll_set /\ dd._vsa > 0 /\ dd.vssa_set /\ dd._vssa # 0
            inside == dd._tfa < y /\ y < DdHeight(dd) - dd._bfa
            y1 == y + dd._vssa - dd._tfa
        IN  /\ ddOut.err = "none"
            /\ ~ddOut.ret_none
            /\ ddOut.ret = IF active /\ inside
                            THEN <<x, IF y1 >= dd._vsa + dd._tfa THEN y1 % dd._vsa ELSE y1>>
                            ELSE <<x, y>>

(* C28: a scroll(dx, dy) call with dx # 0 fails with NotImplementedError   *)
(* for every dy, and the stored scroll start address is after the call     *)
(* what it was before it.                                                  *)
C28_HorizontalScrollFailsUnchanged ==
    [][(ddOut'.op = "scroll" /\ ddOut'.args[1] # 0) =>
          /\ ddOut'.err = "NotImplementedError"
          /\ dd'.vssa_set = dd.vssa_set
          /\ dd'._vssa = dd._vssa]_vars

(* the rotation an assigned value stands for *)
QuarterTurns(value) == IF value % 90 # 0 THEN value * 90 ELSE value

(* C22: whenever a touch device is attached, its rotation is the display's *)
(* rotation; assigning the current rotation changes nothing and calls      *)
(* neither the rotation hook nor init(); any other assignment calls the    *)
(* hook, then sets the rotation, then the touch device's rotation if one   *)
(* is attached, then calls init().                                         *)
C22_TouchFollowsRotation ==
    /\ [](dd.touch = "touch" => dd.touch_rotation = dd._rotation)
    /\ [][ddOut'.op = "rotation" =>
             IF QuarterTurns(ddOut'.args[1]) = dd._rotation
             THEN dd' = dd /\ ddOut'.calls = << >>
             ELSE /\ dd'._rotation = QuarterTurns(ddOut'.args[1])
                  /\ ddOut'.calls =
                        IF dd.touch = "touch"
                        THEN <<"_rotation_helper", "_rotation", "touch.rotation", "init">>
                        ELSE <<"_rotation_helper", "_rotation", "init">>]_vars

C22_TouchTurnedTo270 ==
    /\ ddOut.op = "rotation" /\ ddOut.args = <<3>>
    /\ ddOut.calls = <<"_rotation_helper", "_rotation", "touch.rotation", "init">>
    /\ dd.touch = "touch"
    /\ dd._rotation = 270
    /\ dd.touch_rotation = 270

(* C23: the stored rotation is always one of 0, 90, 180, 270, whatever     *)
(* integers are assigned to rotation.                                      *)
C23_RotationStaysInFourValues ==
    dd._rotation \in {0, 90, 180, 270}

(* C17: the touch_device setter takes None, completing without error and   *)
(* leaving the driver without a touch device; it stores an object that has *)
(* a rotation attribute; it fails with ValueError for any other object,    *)
(* the attached device staying as it was.                                  *)
C17_TouchDeviceSetter ==
    ddOut.op = "touch_device" =>
        /\ ddOut.args[1] = "none"  => (ddOut.err = "none" /\ dd.touch = "none")
        /\ ddOut.args[1] = "touch" => (ddOut.err = "none" /\ dd.touch = "touch")
        /\ ddOut.args[1] = "plain" => (ddOut.err = "ValueError" /\ dd.touch # "plain")

-----------------------------------------------------------------------------
(* Properties of Events.new (under SpecEvents).                            *)

(* the registrations of the last call, up to the k-th, that took the counter *)
TookCounter(e, registered, k) ==
    { j \in 1..k : e[registered[j].name].how \in {"auto", "zero"} }

(* C9: the counter starts at 0x8000; every type registered without a value *)
(* gets the counter's value of that moment, and the counter grows by       *)
(* exactly 1 with each such registration: two value-less registrations of  *)
(* new names from the initial catalog get 0x8000 and 0x8001. (A value of  *)
(* 0 is falsy: the code treats it as no value, and it takes the counter    *)
(* and advances it as well.)                                               *)
C9_AutoValuesFromCounter ==
    [][ evOut'.called =>
          LET reg == evOut'.registered
              base == ev[CounterName].value
          IN  /\ (ev = EventsClass => base = 32768)
              /\ \A k \in 1..Len(reg) :
                    ev'[reg[k].name].how = "auto" =>
                        /\ ev'[reg[k].name].kind = "type"
                        /\ ev'[reg[k].name].value
                             = base + Cardinality(TookCounter(ev', reg, k - 1))
              /\ ev'[CounterName].value
                   = base + Cardinality(TookCounter(ev', reg, Len(reg)))
              /\ (\A k \in 1..Len(reg) : ev'[reg[k].name].how # "zero") =>
                    ev'[CounterName].value - base
                      = Cardinality({k \in 1..Len(reg) : ev'[reg[k].name].how = "auto"})
              /\ (ev = EventsClass /\ Len(reg) = 2
                    /\ \A k \in 1..2 : ev'[reg[k].name].how = "auto") =>
                    /\ ev'[reg[1].name].value = 32768
                    /\ ev'[reg[2].name].value = 32769 ]_vars

C9_TwoAutoRegistered ==
    /\ evOut.called /\ evOut.err = "none"
    /\ Len(evOut.registered) = 2
    /\ \A k \in 1..2 : ev[evOut.registered[k].name].how = "auto"
    /\ ev[CounterName].value = 32770

(* the names tried, as Events.new has to store them *)
NormalForm(kind, raw) ==
    IF kind = "type"
    THEN CASE raw = <<"f","o","o">>     -> <<"F","O","O">>
           [] raw = <<"B","a","r">>     -> <<"B","A","R">>
           [] raw = <<"q","u","i","t">> -> <<"Q","U","I","T">>
    ELSE CASE raw = <<"f","o","o">>     -> <<"F","o","o">>
           [] raw = <<"K","E","Y">>     -> <<"K","e","y">>

-----------------------------------------------------------------------------
(* Properties of DisplayDriver.blit_transparent (under SpecBlitTransparent)*)

(* the colour of the pixel in row j, column c of the call's buffer *)
BtPixel(a, j, c) ==
    LET at(i) == a.buf[(j * a.w + c) * a.bpp + i]
    IN  IF a.bpp = 1 THEN at(1) ELSE at(1) + 256 * at(2)

(* the maximal runs of non-key pixels: row j, columns s .. e - 1 *)
BtRuns(a) ==
    { r \in [j : 0..(a.h - 1), s : 0..(a.w - 1), e : 1..a.w] :
        /\ r.s < r.e
        /\ \A c \in r.s..(r.e - 1) : BtPixel(a, r.j, c) # a.key
        /\ (r.s = 0 \/ BtPixel(a, r.j, r.s - 1) = a.key)
        /\ (r.e = a.w \/ BtPixel(a, r.j, r.e) = a.key) }

(* the blit_rect call a run asks for *)
BtRunCall(a, r) ==
    [buf |-> SubSeq(a.buf, (r.j * a.w + r.s) * a.bpp + 1, (r.j * a.w + r.e) * a.bpp),
     x |-> a.xy[1] + r.s, y |-> a.xy[2] + r.j, w |-> r.e - r.s, h |-> 1]

(* C11: blit_transparent makes exactly one blit_rect call per maximal run  *)
(* of non-key pixels within a row, of height 1, at (x + run start, y + row)*)
(* with the run's width and bytes; none for an all-key buffer, one of      *)
(* width 1 for a single non-key pixel in a row; it returns Area(x,y,w,h).  *)
C11_OneBlitPerRun ==
    (btCall.called /\ btCall.a.key < 256 ^ btCall.a.bpp) =>
        LET a == btCall.a
            made == { btCall.calls[k] : k \in 1..Len(btCall.calls) }
        IN  /\ btCall.err = "none"
            /\ btCall.ret = [x |-> a.xy[1], y |-> a.xy[2], w |-> a.w, h |-> a.h]
            /\ made = { BtRunCall(a, r) : r \in BtRuns(a) }
            /\ Len(btCall.calls) = Cardinality(BtRuns(a))
            /\ (\A j \in 0..(a.h - 1), c \in 0..(a.w - 1) : BtPixel(a, j, c) = a.key)
                  => btCall.calls = << >>
            /\ \A j \in 0..(a.h - 1), c \in 0..(a.w - 1) :
                  (\A d \in 0..(a.w - 1) : (BtPixel(a, j, d) # a.key) <=> (d = c)) =>
                      Cardinality({k \in 1..Len(btCall.calls) :
                                      btCall.calls[k].y = a.xy[2] + j}) = 1

C11_TwoRunsInARow ==
    /\ btCall.called
    /\ btCall.a.bpp = 2 /\ btCall.a.key = 256
    /\ btCall.a.w = 4 /\ btCall.a.xy = <<1, 2>>
    /\ Len(btCall.calls) = 2
    /\ btCall.calls[1].w = 1 /\ btCall.calls[1].x = 1
    /\ btCall.calls[2].w = 2 /\ btCall.calls[2].x = 3

-----------------------------------------------------------------------------
(* Properties of Area (under SpecArea).                                    *)

(* the open intervals (lo1, hi1) and (lo2, hi2) have a point in common *)
OpenOverlap(lo1, hi1, lo2, hi2) ==
    (IF lo1 > lo2 THEN lo1 ELSE lo2) < (IF hi1 < hi2 THEN hi1 ELSE hi2)

(* the open rectangles of a and b overlap in a point *)
OpenRectsOverlap(a, b) ==
    /\ OpenOverlap(a.x, a.x + a.w, b.x, b.x + b.w)
    /\ OpenOverlap(a.y, a.y + a.h, b.y, b.y + b.h)

(* a and b lie side by side along a stretch of an edge *)
ShareEdge(a, b) ==
    \/ /\ a.x + a.w = b.x \/ b.x + b.w = a.x
       /\ OpenOverlap(a.y, a.y + a.h, b.y, b.y + b.h)
    \/ /\ a.y + a.h = b.y \/ b.y + b.h = a.y
       /\ OpenOverlap(a.x, a.x + a.w, b.x, b.x + b.w)

(* C12: for all areas a and b, those of zero width or height included,     *)
(* a.intersects(b) is true iff the open rectangles of a and b overlap in a *)
(* point; a.touches_or_intersects(b) is true then and also when they share *)
(* an edge: Area(0,0,10,10) and Area(10,0,10,10) do not intersect but      *)
(* touch.                                                                  *)
C12_IntersectsIffOpenOverlap ==
    arCall.called =>
        /\ arCall.intersects <=> OpenRectsOverlap(arCall.a, arCall.b)
        /\ (OpenRectsOverlap(arCall.a, arCall.b) \/ ShareEdge(arCall.a, arCall.b))
              => arCall.touches
        /\ (arCall.a = Area(0, 0, 10, 10) /\ arCall.b = Area(10, 0, 10, 10))
              => (~arCall.intersects /\ arCall.touches)

-----------------------------------------------------------------------------
(* Properties of color565 and color_rgb (under SpecColor).                 *)

(* the distance between two channel values *)
ChannelDiff(u, v) == IF u < v THEN v - u ELSE u - v

(* C13: color565(r, g, b) is the top 5 bits of r, the top 6 of g and the   *)
(* top 5 of b, packed from bit 15 down (0xF800, 0x07E0 and 0x001F for the  *)
(* primaries), and color_rgb of it gives back channels that differ from    *)
(* r, g and b by less than 8 each.                                         *)
C13_Color565PacksAndReadsBack ==
    colCall.called =>
        /\ colCall.color = (colCall.r \div 8) * 2048 + (colCall.g \div 4) * 32
                             + (colCall.b \div 8)
        /\ (colCall.r = 255 /\ colCall.g = 0 /\ colCall.b = 0) => colCall.color = 63488
        /\ (colCall.r = 0 /\ colCall.g = 255 /\ colCall.b = 0) => colCall.color = 2016
        /\ (colCall.r = 0 /\ colCall.g = 0 /\ colCall.b = 255) => colCall.color = 31
        /\ ChannelDiff(colCall.rgb[1], colCall.r) < 8
        /\ ChannelDiff(colCall.rgb[2], colCall.g) < 8
        /\ ChannelDiff(colCall.rgb[3], colCall.b) < 8

C13_MixedColourReadBack ==
    /\ colCall.called
    /\ colCall.r = 37 /\ colCall.g = 7 /\ colCall.b = 255
    /\ colCall.color = 8255
    /\ colCall.rgb = <<33, 7, 255>>

-----------------------------------------------------------------------------
(* Properties of a constructed BusDisplay's touch correction (under        *)
(* SpecBusTouch).                                                          *)

(* bit k of mask is set *)
MaskBit(mask, k) == (mask \div (2 ^ k)) % 2 = 1

(* the driver's three booleans are the unpacking of mask *)
TouchIsMask(mask) ==
    /\ bd._touch_swap_xy  = MaskBit(mask, 0)
    /\ bd._touch_invert_x = MaskBit(mask, 1)
    /\ bd._touch_invert_y = MaskBit(mask, 2)

(* C14: set_touch_rotation_mask(mask), mask in 0..7, sets swap_xy to bit 0,*)
(* invert_x to bit 1 and invert_y to bit 2 of the mask; after an           *)
(* assignment of rotation the three booleans are that unpacking of         *)
(* touch_rotation_table[(rotation / 90) mod 4]: of 0b000, 0b101, 0b110 and *)
(* 0b011 at 0, 90, 180 and 270 with the default table.                     *)
C14_TouchMaskUnpacked ==
    /\ bdOp.op = "set_touch_rotation_mask" => TouchIsMask(bdOp.args[1])
    /\ bdOp.op = "rotation" =>
          /\ bd._rotation = bdOp.args[1]
          /\ TouchIsMask(bd._touch_rotation_table[((bdOp.args[1] \div 90) % 4) + 1])
          /\ bd._touch_rotation_table = <<0, 5, 6, 3>> =>
                /\ bdOp.args[1] = 0   => TouchIsMask(0)
                /\ bdOp.args[1] = 90  => TouchIsMask(5)
                /\ bdOp.args[1] = 180 => TouchIsMask(6)
                /\ bdOp.args[1] = 270 => TouchIsMask(3)

C14_RotatedTo270 ==
    /\ bdOp.op = "rotation" /\ bdOp.args = <<270>>
    /\ bd._touch_rotation_table = <<0, 5, 6, 3>>
    /\ bd._touch_swap_xy /\ bd._touch_invert_x /\ ~bd._touch_invert_y

-----------------------------------------------------------------------------
(* Properties of BusDisplay.brightness (under SpecBusBrightness).          *)

(* C15: assigning brightness a value outside [0.0, 1.0] fails with an      *)
(* InvalidArgument error (ValueError), leaves the stored brightness as it  *)
(* was, and writes to no backlight pin and sends no brightness command.    *)
C15_OutOfRangeBrightnessFails ==
    (bdOp.op = "brightness" /\ (bdOp.args[1] < 0 \/ bdOp.args[1] > 100)) =>
        /\ bdOp.err = "ValueError"
        /\ bd._brightness \in 0..100
        /\ busLog = << >>

-----------------------------------------------------------------------------
(* Properties of the order of a construction's bus calls (under SpecBus).  *)

(* the command bytes of a packed init sequence, record by record: a        *)
(* command byte, a count byte (bit 7: a delay byte follows the             *)
(* parameters), the parameters, the delay byte                             *)
RECURSIVE PackedCommands(_, _)
PackedCommands(bytes, i) ==
    IF i + 1 > Len(bytes) THEN << >>
    ELSE <<bytes[i]>> \o PackedCommands(bytes, i + 2 + (bytes[i + 1] % 128)
                                                  + (IF bytes[i + 1] >= 128 THEN 1 ELSE 0))

(* the commands of the init sequence a driver was given, in its order *)
SequenceCommands(init_sequence) ==
    CASE init_sequence.kind = "bytes" -> PackedCommands(init_sequence.bytes, 1)
      [] init_sequence.kind = "list" ->
            [k \in 1..Len(init_sequence.list) |-> init_sequence.list[k][1]]
      [] OTHER -> << >>

IsCommand(e) == e.k = "cmd"

IsBrightnessCall(e) ==
    \/ e.k \in {"backlight.duty_u16", "backlight.value"}
    \/ e.k = "cmd" /\ bdArgs.backlight.has_cmd /\ e.c = bdArgs.backlight.cmd

(* C25: a successful construction calls the bus in this order: the bus's   *)
(* init (when it has one), the commands of the init sequence in their      *)
(* order, the commands of the init() hook, MADCTL for the configured       *)
(* rotation first, the brightness, the inversion command when invert was   *)
(* asked for, and last COLMOD with the pixel-format code of the colour     *)
(* depth.                                                                  *)
C25_ConstructionOrder ==
    bd.state = "ok" =>
        LET n == Len(busLog)
            pins == CASE bdArgs.backlight.pin = "pwm" -> 2
                      [] bdArgs.backlight.pin = "binary" -> 1
                      [] OTHER -> 0
            first == pins + (IF bdArgs.bus = "lcd_bus" THEN 1 ELSE 0)
            ret == CHOOSE i \in 1..n : busLog[i].k = "init.return"
            own == bdArgs.hook = "base"
            madctl == Event("cmd", _MADCTL,
                            << _madctl(bdArgs.bgr, bdArgs.rotation,
                                       RotationTable(bdArgs.mirrored)) >>, << >>)
            hook == IF own
                    THEN CHOOSE i \in (first + 1)..n :
                            /\ busLog[i] = madctl
                            /\ \A j \in (first + 1)..(i - 1) : busLog[j] # madctl
                    ELSE ret
            sent == SelectSeq(SubSeq(busLog, first + 1, hook - 1), IsCommand)
            tail == SubSeq(busLog, ret + 1, n)
            t == Len(tail)
            inv == IF bdArgs.invert THEN 1 ELSE 0
        IN  /\ \A i \in 1..n : busLog[i].k = "bus.init" <=>
                                  (bdArgs.bus = "lcd_bus" /\ i = pins + 1)
            /\ \A i \in 1..first : busLog[i].k \notin {"cmd", "tx_color"}
            /\ [k \in 1..Len(sent) |-> sent[k].c] = SequenceCommands(bdArgs.init_sequence)
            /\ own => (\E i \in (first + 1)..n : busLog[i] = madctl) /\ hook < ret
            /\ t >= 1 + inv
            /\ tail[t] = Event("cmd", _COLMOD, << pixel_formats(bdArgs.color_depth) >>, << >>)
            /\ bdArgs.invert => tail[t - 1] = Event("cmd", _INVON, << >>, << >>)
            /\ t - 1 - inv \in {0, 1}
            /\ t - 1 - inv = 1 => IsBrightnessCall(tail[1])
            /\ (bdArgs.brightness <= 100
                  /\ (bdArgs.backlight.pin # "none" \/ bdArgs.backlight.has_cmd))
                  => t - 1 - inv = 1

C25_SequenceBrightnessInversion ==
    /\ bd.state = "ok"
    /\ bdArgs.bus = "lcd_bus"
    /\ bdArgs.init_sequence.kind = "bytes"
    /\ bdArgs.rotation = 90
    /\ bdArgs.invert
    /\ busLog[1].k = "bus.init"
    /\ busLog[2].c = 17
    /\ busLog[Len(busLog) - 2] = Event("cmd", 81, <<255>>, << >>)
    /\ busLog[Len(busLog) - 1].c = _INVON
    /\ busLog[Len(busLog)].c = _COLMOD

-----------------------------------------------------------------------------
(* Properties of BusDisplay.blit and set_render_mode_full (under           *)
(* SpecBusBlit).                                                           *)

(* a 16-bit value as two bytes, the high one first *)
BigEndian16(v) == <<v \div 256, v % 256>>

(* the bus call that sets the column (or row) addresses lo .. hi *)
IsAddressCommand(e, cmd, lo, hi) ==
    /\ e.k = "cmd"
    /\ e.c = cmd
    /\ e.p = BigEndian16(lo) \o BigEndian16(hi)

(* the bus call that transfers buf under the write-RAM command *)
IsRamWrite(e, buf) ==
    /\ e.k \in {"tx_color", "cmd"}
    /\ e.c = 44
    /\ e.p = buf

(* C18: in windowed render mode a blit(x, y, w, h, buf) puts on the bus,   *)
(* in this order, the column-address command with big-endian x1, x2, the   *)
(* row-address command with big-endian y1, y2 and the write-RAM command    *)
(* with buf, where x1 = x + colstart, x2 = x1 + w - 1, y1 = y + rowstart,  *)
(* y2 = y1 + h - 1; in full render mode it puts the write-RAM transfer     *)
(* only.                                                                   *)
C18_BlitSetsWindowThenWrites ==
    bdOp.op = "blit" =>
        LET x1 == bdOp.args[1] + bdArgs.start[1]
            x2 == x1 + bdOp.args[3] - 1
            y1 == bdOp.args[2] + bdArgs.start[2]
            y2 == y1 + bdOp.args[4] - 1
        IN  /\ bdOp.err = "none"
            /\ IF bd.render_mode_full
               THEN Len(busLog) = 1 /\ IsRamWrite(busLog[1], OpsBuf)
               ELSE /\ Len(busLog) = 3
                    /\ IsAddressCommand(busLog[1], 42, x1, x2)
                    /\ IsAddressCommand(busLog[2], 43, y1, y2)
                    /\ IsRamWrite(busLog[3], OpsBuf)

C18_WindowedBlitFarRight ==
    /\ bdOp.op = "blit" /\ bdOp.args = <<300, 1, 1, 2>>
    /\ ~bd.render_mode_full
    /\ bd._rotation = 90
    /\ busLog[1].p = <<1, 45, 1, 45>>
    /\ busLog[2].p = <<0, 3, 0, 4>>
    /\ busLog[3].k = "tx_color"

C18_FullModeBlit ==
    /\ bdOp.op = "blit"
    /\ bd.render_mode_full
    /\ Len(busLog) = 1
    /\ busLog[1].k = "cmd"

(* the write-RAM transfers among the bus calls *)
IsWrite(e) == e.k \in {"tx_color", "cmd"} /\ e.c = 44

(* the pixels of the display a transfer's rectangle covers *)
StripPixels(e) ==
    { <<px, py>> : px \in (e.win[1] - bdArgs.start[1])..(e.win[3] - bdArgs.start[1]),
                   py \in (e.win[2] - bdArgs.start[2])..(e.win[4] - bdArgs.start[2]) }

(* C24: fill_rect(x, y, w, h, color) with w, h >= 0 makes min(w, h) blits:  *)
(* h blits of w x 1 when h <= w, w blits of 1 x h when h > w; the strips    *)
(* are pairwise disjoint and cover exactly [x, x+w) x [y, y+h); every       *)
(* pixel sent is color as two bytes, the low one first.                    *)
C24_FillRectStrips ==
    bdOp.op = "fill_rect" =>
        LET x == bdOp.args[1]
            y == bdOp.args[2]
            w == bdOp.args[3]
            h == bdOp.args[4]
            color == bdOp.args[5]
            writes == SelectSeq(busLog, IsWrite)
            long == IF h > w THEN h ELSE w
        IN  /\ bdOp.err = "none"
            /\ Len(writes) = (IF h > w THEN w ELSE h)
            /\ \A k \in 1..Len(writes) :
                  /\ Len(writes[k].p) = 2 * long
                  /\ \A i \in 1..long :
                        /\ writes[k].p[2 * i - 1] = color % 256
                        /\ writes[k].p[2 * i] = color \div 256
            /\ bd.bus = "lcd_bus" =>
                  /\ \A k \in 1..Len(writes) :
                        /\ writes[k].win[3] - writes[k].win[1] + 1 = (IF h > w THEN 1 ELSE w)
                        /\ writes[k].win[4] - writes[k].win[2] + 1 = (IF h > w THEN h ELSE 1)
                  /\ \A j, k \in 1..Len(writes) :
                        j # k => StripPixels(writes[j]) \cap StripPixels(writes[k]) = {}
                  /\ UNION { StripPixels(writes[k]) : k \in 1..Len(writes) }
                        = { <<px, py>> : px \in x..(x + w - 1), py \in y..(y + h - 1) }

C24_TwoColumnsOfThree ==
    /\ bdOp.op = "fill_rect" /\ bdOp.args = <<3, 1, 2, 3, 258>>
    /\ bd.bus = "lcd_bus"
    /\ Len(busLog) = 2
    /\ busLog[1].p = <<2, 1, 2, 1, 2, 1>>
    /\ busLog[1].win = <<4, 3, 4, 5>>
    /\ busLog[2].win = <<5, 3, 5, 5>>

(* the whole display as an address window: its columns and rows counted   *)
(* from the column and row start, or as set_render_mode_full names them    *)
WholeDisplay(obj) ==
    { [col |-> <<obj._colstart, obj._colstart + BdWidth(obj) - 1>>,
       row |-> <<obj._rowstart, obj._rowstart + BdHeight(obj) - 1>>],
      [col |-> <<0, BdWidth(obj)>>, row |-> <<0, BdHeight(obj)>>] }

(* C29: while the driver is in full render mode, whatever rotations are    *)
(* assigned and blits made, the address window last sent to the controller *)
(* is the whole display at the current rotation, with the current width    *)
(* and height: no window of an earlier orientation stays in effect.        *)
C29_FullModeWindowFollowsRotation ==
    bd.render_mode_full => bdWindow \in WholeDisplay(bd)

(* C19: set_render_mode_full(True) sets the address window once, to the    *)
(* full display: to the bounds a windowed blit(0, 0, width, height, buf)   *)
(* sets, columns colstart .. colstart + width - 1 and rows rowstart ..     *)
(* rowstart + height - 1; the blits after it set no window.                *)
C19_FullModeWindowIsWholeDisplay ==
    (bdOp.op = "set_render_mode_full" /\ bdOp.args[1]) =>
        /\ bd.render_mode_full
        /\ Len(busLog) = 2
        /\ IsAddressCommand(busLog[1], 42, bdArgs.start[1],
                            bdArgs.start[1] + BdWidth(bd) - 1)
        /\ IsAddressCommand(busLog[2], 43, bdArgs.start[2],
                            bdArgs.start[2] + BdHeight(bd) - 1)

-----------------------------------------------------------------------------
(* Properties of configs/board_config.py (under SpecBoardConfig).          *)

(* the backend the environment's markers call for *)
BackendFor(env) ==
    IF env.pyscript THEN "PSDisplay"
    ELSE IF env.get_ipython THEN "JNDisplay"
    ELSE "DTDisplay"

HasDevice(broker, type, read) ==
    \E i \in 1..Len(broker) : broker[i].type = type /\ broker[i].read = read

(* C20: when the script has run, the display is the browser backend if the *)
(* pyscript marker is present, else the notebook backend if get_ipython is *)
(* present, else the desktop backend; in the browser and the notebook case *)
(* the broker holds a touch-type device that reads the mouse position, in  *)
(* the desktop case a queue-type device that reads with poll; and the      *)
(* display has been filled with colour 0 last.                             *)
C20_BackendDeviceAndClear ==
    cfg.pc = "done" =>
        /\ cfg.display_drv.cls = BackendFor(cfg.env)
        /\ cfg.display_drv.cls \in {"PSDisplay", "JNDisplay"} =>
              HasDevice(cfg.broker, "TOUCH", "touch_drv.get_mouse_pos")
        /\ cfg.display_drv.cls = "DTDisplay" => HasDevice(cfg.broker, "QUEUE", "poll")
        /\ Len(cfg.display_drv.fills) > 0
        /\ cfg.display_drv.fills[Len(cfg.display_drv.fills)] = 0

-----------------------------------------------------------------------------
(* Properties of the catalog as a whole (under SpecEvents).                *)

(* the names of the event types in the catalog *)
TypeNames(e) == { n \in DOMAIN e : e[n].kind = "type" }

(* C26: after successful Events.new calls, with and without values given,  *)
(* every registered user type has a code no other type name of the catalog *)
(* has: a code taken from the counter equals no built-in code, no code     *)
(* given explicitly and no other code taken from the counter.              *)
C26_UserTypeCodesDistinct ==
    (evOut.called /\ evOut.err = "none") =>
        \A n \in TypeNames(ev) : \A o \in TypeNames(ev) :
            (n # o /\ ev[n].how # "builtin") => ev[n].value # ev[o].value

(* C27: an Events.new call that fails because a name exists leaves the     *)
(* catalog and the counter as they were before the call.                   *)
C27_FailedNewChangesNothing ==
    [][(evOut'.called /\ evOut'.err = "ValueError") => ev' = ev]_vars

-----------------------------------------------------------------------------
(* Properties of BusDisplay.get_touched (under SpecBusTouchRead).          *)

(* C30: with the default touch rotation table and a rotation of 0, 90, 180 *)
(* or 270, a raw point (x, y) within the panel (0 <= x < physical width,   *)
(* 0 <= y < physical height), read as a point or as the first of a list,   *)
(* comes back from get_touched with x and y swapped if the rotation's mask *)
(* says so, then x replaced by width - x - 1 and y by height - y - 1 if it *)
(* says so, and lies within [0, width) x [0, height) of the rotated        *)
(* display; get_touched returns None when there is no callback or the      *)
(* callback returns nothing.                                               *)
C30_TouchPointInsideRotatedDisplay ==
    (bdOp.op = "get_touched" /\ bd._touch_rotation_table = <<0, 5, 6, 3>>
       /\ bd._rotation \in {0, 90, 180, 270}) =>
        LET touched == bdOp.args[1]
            mask == <<0, 5, 6, 3>>[(bd._rotation \div 90) + 1]
            x0 == touched.pts[1][1]
            y0 == touched.pts[1][2]
            x1 == IF MaskBit(mask, 0) THEN y0 ELSE x0
            y1 == IF MaskBit(mask, 0) THEN x0 ELSE y0
            x2 == IF MaskBit(mask, 1) THEN BdWidth(bd) - x1 - 1 ELSE x1
            y2 == IF MaskBit(mask, 2) THEN BdHeight(bd) - y1 - 1 ELSE y1
        IN  /\ bdOp.err = "none"
            /\ (touched.kind \in {"absent", "none"} \/ touched.pts = << >>)
                  => bdOp.ret = << >>
            /\ (touched.kind \in {"point", "list"} /\ touched.pts # << >>
                  /\ x0 < bd._width /\ y0 < bd._height) =>
                  /\ bdOp.ret = <<x2, y2>>
                  /\ 0 <= x2 /\ x2 < BdWidth(bd)
                  /\ 0 <= y2 /\ y2 < BdHeight(bd)

C30_FirstOfListAt270 ==
    /\ bdOp.op = "get_touched"
    /\ bd._touch_rotation_table = <<0, 5, 6, 3>>
    /\ bd._rotation = 270
    /\ bdOp.args[1] = TouchRead("list", << <<0, 1>>, <<MaxDim, 0>> >>)
    /\ bdOp.ret = <<0, 0>>

====
